---- MODULE Spec2Model ----
(***************************************************************************)
(* Resumable tech-pack job pipeline (core/agent-loader.js, the job         *)
(* processor) together with the job watchdog (job-watchdog.js).            *)
(*                                                                         *)
(* One job record in the job store, one worker process at a time working   *)
(* on it, the artifact directory ./out, and the watchdog polling the job   *)
(* store.  Time is counted in watchdog poll intervals (CHECK_INTERVAL_MS): *)
(* the field updated_at of the job record is kept as its age, the number   *)
(* of poll intervals since it was last written.                            *)
(***************************************************************************)
EXTENDS Integers, Sequences, FiniteSets, TLC

\* ------------------------------------------------------------------------
\* Bounds of the model (not program constants)
\* ------------------------------------------------------------------------
\* process-fatal events (kills, pipeline exceptions, abandoned popup
\* promises) the environment injects in one behaviour of Spec
MaxFaults == 1
\* the same, for the watchdog specification SpecW
MaxFaultsW == 12
\* changes of the artifact directory made from outside (expiry, loss)
MaxEnvEvents == 1
\* kills of the restarted worker in the resume specification SpecR
MaxFaultsR == 1
\* poll intervals without a stored heartbeat (SpecH)
MaxSilent == 3
\* pdfs of recorded downloads that are stale or missing when SpecR starts
MaxBadPdfs == 1
\* data rows of an input table (SpecA)
MaxRows == 4
\* downloads the crashed run of SpecR had recorded
RecordedDownloads == 4

\* ------------------------------------------------------------------------
\* Program constants
\* ------------------------------------------------------------------------
CHECK_INTERVAL_MS == 60000
STALE_THRESHOLD_MS == 120000
MAX_RESTART_ATTEMPTS == 10
FAILED_RETRY_WINDOW_MS == 300000
HEARTBEAT_MS == 30000
MAX_RETRIES == 3
\* the delay before the retry of a call whose answer could not be parsed
PARSE_RETRY_MS == 3000
\* the delay between the extractions of two items
INTER_CALL_DELAY_MS == 5000
\* the unit of the rate-limit backoff
RATE_LIMIT_BASE_MS == 30000

JOB_ID == "job"

\* Transient errors that trigger a retry, as sequences of words
RETRYABLE_ERRORS ==
  { <<"Target", "page,", "context", "or", "browser", "has", "been", "closed">>,
    <<"browser", "has", "been", "closed">>,
    <<"context", "has", "been", "closed">>,
    <<"page", "has", "been", "closed">>,
    <<"Popup", "never", "opened">>,
    <<"Navigation", "timeout">>,
    <<"Timeout", "exceeded">>,
    <<"net::ERR_">>,
    <<"ECONNRESET">>,
    <<"ETIMEDOUT">>,
    <<"socket", "hang", "up">>,
    <<"Unhandled", "rejection">> }

\* ------------------------------------------------------------------------
\* Text helpers: a text is a sequence of words or of characters
\* ------------------------------------------------------------------------
\* String.prototype.includes: pat occurs in msg as a contiguous run
Includes(msg, pat) ==
  \E i \in 1..(Len(msg) - Len(pat) + 1) : SubSeq(msg, i, i + Len(pat) - 1) = pat

\* first / last position of word c in text s, 0 when absent
IndexOf(s, c) ==
  IF \E i \in 1..Len(s) : s[i] = c
  THEN CHOOSE i \in 1..Len(s) : s[i] = c /\ \A j \in 1..(i - 1) : s[j] # c
  ELSE 0

LastIndexOf(s, c) ==
  IF \E i \in 1..Len(s) : s[i] = c
  THEN CHOOSE i \in 1..Len(s) : s[i] = c /\ \A j \in (i + 1)..Len(s) : s[j] # c
  ELSE 0

SeqToSet(s) == { s[i] : i \in 1..Len(s) }

\* Math.round(a / b) for a >= 0, b > 0
MathRound(a, b) == (2 * a + b) \div (2 * b)

Min(a, b) == IF a < b THEN a ELSE b

\* ------------------------------------------------------------------------
\* Work-item keys and artifact files
\* ------------------------------------------------------------------------
\* the characters of each style number the model uses
StyleChars(k) ==
  CASE k = "A1"  -> <<"A", "1">>
    [] k = "B 2" -> <<"B", " ", "2">>
    [] k = "K0"  -> <<"K", "0">>
    [] k = "K1"  -> <<"K", "1">>
    [] k = "K2"  -> <<"K", "2">>
    [] k = "K3"  -> <<"K", "3">>
    [] k = "K4"  -> <<"K", "4">>
    [] k = "K5"  -> <<"K", "5">>
    [] k = "K6"  -> <<"K", "6">>
    [] k = "K7"  -> <<"K", "7">>
    [] k = "K8"  -> <<"K", "8">>
    [] k = "K9"  -> <<"K", "9">>

SafeChars == { "A", "B", "K", "0", "1", "2", "3", "4", "5", "6", "7", "8", "9",
               ".", "_", "-" }

\* s.replace(/[^a-zA-Z0-9._-]/g, "_")
safe(s) == [ i \in 1..Len(s) |-> IF s[i] \in SafeChars THEN s[i] ELSE "_" ]

\* Tech_Pack_<name>.pdf in OUT_DIR, named by <name>
SafePdf(k) == safe(StyleChars(k))
RawPdf(k) == StyleChars(k)

PdfNames(styles) ==
  { SafePdf(k) : k \in SeqToSet(styles) } \cup { RawPdf(k) : k \in SeqToSet(styles) }

\* ------------------------------------------------------------------------
\* Extraction service responses
\* ------------------------------------------------------------------------
\* texts the extraction service can answer with; ~~~ stands for a
\* markdown code fence
ResponseTexts ==
  { <<"~~~json", "{", "fields", "}", "~~~">>,
    <<"null">>,
    <<"Sorry,", "{", "unreadable">> }

\* errors the call of the extraction service can throw, by their messages;
\* a digit is one character of the text
RateLimited == <<"4", "2", "9", "rate_limit", "_error">>
Overloaded == <<"5", "2", "9", "overloaded", "_error">>
PromptTooLong ==
  <<"4", "0", "0", "prompt", "is", "too", "long:", "2", "0", "4", "2", "9", "1",
    "tokens">>

\* the message of readFileSync on a missing file, before the path
NoSuchFile == <<"ENOENT:", "no", "such", "file", "or", "directory,", "open">>

\* JSON.parse on a text: the parsed value, or a SyntaxError
JSONparse(t) ==
  IF Len(t) = 3 /\ t[1] = "{" /\ t[3] = "}" /\ t[2] \notin {"{", "}"}
  THEN [ok |-> TRUE, value |-> t]
  ELSE IF t = <<"null">> THEN [ok |-> TRUE, value |-> t]
  ELSE [ok |-> FALSE, value |-> <<"SyntaxError">>]

\* a parsed value that JavaScript treats as false
Falsy(v) == v = <<"null">>

extractJsonFromText(text) ==
  LET cleaned == SelectSeq(text, LAMBDA w : w \notin {"~~~json", "~~~"})
      jsonStart == IndexOf(cleaned, "{")
      jsonEnd == LastIndexOf(cleaned, "}")
      span == IF jsonStart # 0 /\ jsonEnd # 0 /\ jsonEnd > jsonStart
              THEN SubSeq(cleaned, jsonStart, jsonEnd)
              ELSE cleaned
  IN JSONparse(span)

\* ------------------------------------------------------------------------
\* Watchdog classification
\* ------------------------------------------------------------------------
isRetryableError(errorMsg) ==
  /\ errorMsg # <<>>
  /\ \E pattern \in RETRYABLE_ERRORS : Includes(errorMsg, pattern)

\* updated_at < now - STALE_THRESHOLD_MS, for an age in poll intervals
IsStale(age) == age * CHECK_INTERVAL_MS > STALE_THRESHOLD_MS

\* updated_at > now - FAILED_RETRY_WINDOW_MS
IsRecent(age) == age * CHECK_INTERVAL_MS < FAILED_RETRY_WINDOW_MS

\* ages beyond every threshold are not told apart
AgeCap == FAILED_RETRY_WINDOW_MS \div CHECK_INTERVAL_MS

\* Job crashed <attempts> times and was not restarted. Last progress: ...
CrashedMessage(attempts, progress, style) ==
  <<"Job", "crashed", ToString(attempts), "times", "and", "was", "not",
    "restarted.", "Last", "progress:", ToString(progress), "%", "at">> \o style

\* error texts a pipeline exception can carry
PipelineErrors ==
  { <<"Target", "page,", "context", "or", "browser", "has", "been", "closed">>,
    <<"Failed", "to", "download", "input:", "Object", "not", "found">> }

PopupNeverOpened == <<"Error:", "Popup", "never", "opened">>

\* err.message of an exception thrown outside the pipeline's try block
UncaughtError == <<"write", "EPIPE">>

\* the message the unhandledRejection handler stores, without the prefix
UnhandledRejectionBare(reason) == reason

\* the messages the two fault interceptors store
UnhandledRejectionMessage(reason) == <<"Unhandled", "rejection", ":">> \o reason
CrashMessage(err) == <<"Crash:">> \o err

\* ------------------------------------------------------------------------
\* State
\* ------------------------------------------------------------------------
VARIABLES
  cfg,                 \* the inputs of the run: unique styles of the input CSV,
                       \* PARALLEL_WORKERS, the fault budget and the positions
                       \* of main() at which faults are injected
  sheet,               \* the input table a run of the reader and the output
                       \* assembler works on, and what they made of it
  job,                 \* the job record in the job store
  pdfs,                \* artifact directory: pdf name -> missing/fresh/stale
  faults,              \* process-fatal events injected so far
  envEvents,           \* outside changes of the artifact directory so far
  procFault,           \* a kill or a pipeline exception has been injected
  \* ---- worker process (job processor)
  alive,               \* the process runs, and its heartbeat timer with it
  guard,               \* a fault interceptor of the process has sent its
                       \* update of the job record and awaits the answer
  pc,                  \* where main() stands
  completedDownloads, completedExtractions, partialExtractions,
  totalProcessed, totalStyles,
  styleQueue, downloadResults,
  workers,             \* download workers: worker id -> its position
  popupPending,        \* an abandoned page2Promise will reject
  stylesToExtract, extractionResults,
  ex,                  \* extraction stage: its position
  \* ---- watchdog process
  restartAttempts,     \* Map jobId -> count
  wdpc,                \* where the poll callback stands
  wdJob,               \* the row the watchdog's query returned
  \* ---- a worker process left running beside the one the watchdog spawned
  orphan,              \* what it holds in memory and has still to extract
  \* ---- history
  spawns,              \* workers the watchdog has spawned
  spawnedSince,        \* those it spawned since it last deleted the job's
                       \* entry of restartAttempts
  overlaps,            \* one of these was spawned while a worker process
                       \* still ran
  lastExit,            \* how the last worker process ended: "none", or its
                       \* exit code as "0", "1", or "killed"
  ownPercent,          \* current run: the progress_percent it stored last
  popCount,            \* current run: key placed in the queue -> times it was
                       \* popped from it
  extractCalled,       \* current run: keys the extraction service was called for
  startExtractions,    \* completed_extractions read when the run started
  startPartial,        \* partial_extractions read when the run started
  resumeLog            \* queues of the last resumes with no progress between

jobVars == <<job>>
envVars == <<cfg, sheet, orphan, pdfs, faults, envEvents, procFault>>
procVars == <<alive, guard, pc, completedDownloads, completedExtractions,
              partialExtractions, totalProcessed, totalStyles, styleQueue,
              downloadResults, workers, popupPending, stylesToExtract,
              extractionResults, ex>>
wdVars == <<restartAttempts, wdpc, wdJob>>
histVars == <<spawns, spawnedSince, overlaps, lastExit, ownPercent, popCount, extractCalled,
              startExtractions, startPartial, resumeLog>>
\* the history a progress write leaves alone
ackHist == <<spawns, spawnedSince, overlaps, lastExit, popCount, extractCalled, startExtractions, startPartial,
             resumeLog>>
\* the history a process exit leaves alone
runHist == <<spawns, spawnedSince, overlaps, ownPercent, popCount, extractCalled,
             startExtractions, startPartial, resumeLog>>
vars == <<jobVars, envVars, procVars, wdVars, histVars>>

\* the positions of main() while the process runs
Positions == {"load", "begin", "resume", "pool", "extract"}

Statuses == {"queued", "processing", "ready_for_export", "failed"}

\* the job record as the submission path creates it
NewJob ==
  [ status |-> "queued",
    style_count |-> 0,
    progress_percent |-> 0,
    current_style |-> <<>>,
    completed_downloads |-> {},
    completed_extractions |-> {},
    partial_extractions |-> <<>>,
    successful_count |-> 0,
    failed_count |-> 0,
    error_message |-> <<>>,
    updated_at |-> 0,
    extracted_data |-> [present |-> FALSE, map |-> <<>>] ]

NoResult == [styleNo |-> "", success |-> FALSE, data |-> <<>>]
IdleEx == [pc |-> "idle", idx |-> 1, retryCount |-> 0, calls |-> 0, waited |-> 0,
           result |-> NoResult,
           percent |-> 0, completed |-> {}, partial |-> <<>>]
\* no input table is followed
NoSheet == [stage |-> "none"]

NoRow == [found |-> FALSE, progress_percent |-> 0, current_style |-> <<>>]

\* no process runs beside the current one
NoOrphan == [running |-> FALSE, todo |-> <<>>, retryCount |-> 0, completed |-> {},
             partial |-> <<>>, results |-> <<>>, totalProcessed |-> 0,
             totalStyles |-> 0]

\* days within which a downloaded pdf is reused
PDF_FRESHNESS_DAYS == 15

\* the age test of isPdfFresh, on the age of the pdf in days
isPdfFresh(ageDays) == ageDays <= PDF_FRESHNESS_DAYS

\* what the directory holds for a pdf of that age: the age enters the
\* program only through isPdfFresh
PdfOfAge(ageDays) == IF isPdfFresh(ageDays) THEN "fresh" ELSE "stale"

\* the worker process's memory before main() has run
ProcReset ==
  /\ completedDownloads' = {}
  /\ completedExtractions' = {}
  /\ partialExtractions' = <<>>
  /\ totalProcessed' = 0
  /\ totalStyles' = 0
  /\ styleQueue' = <<>>
  /\ downloadResults' = <<>>
  /\ workers' = <<>>
  /\ popupPending' = FALSE
  /\ stylesToExtract' = <<>>
  /\ extractionResults' = <<>>
  /\ ex' = IdleEx

\* a worker process has been spawned for the freshly created job
InitRun(styles, parallel, budget, faultAt, table) ==
  /\ cfg = [styles |-> styles, parallel |-> parallel, budget |-> budget,
            faultAt |-> faultAt]
  /\ sheet = table
  /\ job = NewJob
  /\ pdfs \in [PdfNames(styles) ->
               {"missing", PdfOfAge(0), PdfOfAge(PDF_FRESHNESS_DAYS - 1)}]
  /\ \A k \in SeqToSet(styles) : RawPdf(k) # SafePdf(k) => pdfs[RawPdf(k)] = "missing"
  /\ \A i \in 2..Len(styles) : pdfs[SafePdf(styles[i])] = "missing"
  /\ faults = 0
  /\ envEvents = 0
  /\ procFault = FALSE
  /\ orphan = NoOrphan
  /\ alive = TRUE
  /\ guard = FALSE
  /\ pc = "load"
  /\ completedDownloads = {}
  /\ completedExtractions = {}
  /\ partialExtractions = <<>>
  /\ totalProcessed = 0
  /\ totalStyles = 0
  /\ styleQueue = <<>>
  /\ downloadResults = <<>>
  /\ workers = <<>>
  /\ popupPending = FALSE
  /\ stylesToExtract = <<>>
  /\ extractionResults = <<>>
  /\ ex = IdleEx
  /\ restartAttempts = <<>>
  /\ wdpc = "idle"
  /\ wdJob = NoRow
  /\ spawns = 0
  /\ spawnedSince = 0
  /\ overlaps = FALSE
  /\ lastExit = "none"
  /\ ownPercent = 0
  /\ popCount = <<>>
  /\ extractCalled = {}
  /\ startExtractions = {}
  /\ startPartial = <<>>
  /\ resumeLog = <<>>

InitWith(styles, parallel, budget, faultAt) ==
  InitRun(styles, parallel, budget, faultAt, NoSheet)

Init ==
  \E parallel \in {1, 2} : InitWith(<<"A1", "B 2">>, parallel, MaxFaults, Positions)

\* ------------------------------------------------------------------------
\* Worker process: start-up and resume reconciliation
\* ------------------------------------------------------------------------
\* the process ends: its memory is gone and its heartbeat stops
ProcExit(code) ==
  /\ alive' = FALSE
  /\ guard' = FALSE
  /\ pc' = "off"
  /\ lastExit' = code
  /\ ProcReset

\* the pipeline is abandoned: what is left of the process is its call of
\* process.exit(1); the heartbeat timer runs until then
ProcAbandon(at) ==
  /\ pc' = at
  /\ ProcReset
  /\ UNCHANGED <<alive, guard>>

\* main(): read the job record and the three resume-tracking fields
ProcLoad ==
  /\ alive /\ pc = "load"
  /\ completedDownloads' = job.completed_downloads
  /\ completedExtractions' = job.completed_extractions
  /\ partialExtractions' = job.partial_extractions
  /\ startExtractions' = job.completed_extractions
  /\ startPartial' = job.partial_extractions
  /\ popCount' = <<>>
  /\ extractCalled' = {}
  /\ ownPercent' = 0
  /\ pc' = "begin"
  /\ UNCHANGED <<jobVars, envVars, alive, guard, totalProcessed, totalStyles, styleQueue,
                 downloadResults, workers, popupPending, stylesToExtract,
                 extractionResults, ex, wdVars, spawns, spawnedSince, overlaps, lastExit,
                 resumeLog>>

\* main(): the job record cannot be read (no such job, or the job store
\* does not answer); the heartbeat is stopped and the process exits, with
\* no update of the job record
ProcLoadFails ==
  /\ alive /\ pc \in {"load"} \cap cfg.faultAt
  /\ faults < cfg.budget
  /\ faults' = faults + 1
  /\ procFault' = TRUE
  /\ ProcExit("1")
  /\ UNCHANGED <<jobVars, cfg, sheet, orphan, pdfs, envEvents, wdVars, runHist>>

\* a start that also clears the recorded downloads
ProcBeginAfresh ==
  /\ alive /\ pc = "begin"
  /\ totalStyles' = Len(cfg.styles)
  /\ job' = [job EXCEPT !.style_count = Len(cfg.styles), !.status = "processing",
                        !.completed_downloads = {}]
  /\ pc' = "resume"
  /\ UNCHANGED <<envVars, alive, guard, completedDownloads, completedExtractions,
                 partialExtractions, totalProcessed, styleQueue, downloadResults,
                 workers, popupPending, stylesToExtract, extractionResults, ex,
                 wdVars, histVars>>

\* main(): fetch and read the input, then mark the job processing
ProcBegin ==
  /\ alive /\ pc = "begin"
  /\ totalStyles' = Len(cfg.styles)
  /\ job' = [job EXCEPT !.style_count = Len(cfg.styles), !.status = "processing"]
  /\ pc' = "resume"
  /\ UNCHANGED <<envVars, alive, guard, completedDownloads, completedExtractions,
                 partialExtractions, totalProcessed, styleQueue, downloadResults,
                 workers, popupPending, stylesToExtract, extractionResults, ex,
                 wdVars, histVars>>

\* a pdf that exists and is within the freshness window
IsFreshPdf(dir, name) == dir[name] = "fresh"

\* completed downloads whose pdf is missing or stale, in input order
Requeued(uniqueStyles, completed, dir) ==
  SelectSeq(uniqueStyles,
            LAMBDA s : s \in completed /\ ~IsFreshPdf(dir, SafePdf(s)))

\* a queue of the styles not yet downloaded only
ResumeQueueUnverified(uniqueStyles, completed, dir) ==
  SelectSeq(uniqueStyles, LAMBDA s : s \notin completed)

\* the queue main() builds: the styles not yet downloaded, then the
\* completed ones that must be downloaded again
ResumeQueue(uniqueStyles, completed, dir) ==
  SelectSeq(uniqueStyles, LAMBDA s : s \notin completed)
    \o Requeued(uniqueStyles, completed, dir)

\* completedDownloads after the requeued styles are deleted from it
ResumeCompleted(uniqueStyles, completed, dir) ==
  completed \ SeqToSet(Requeued(uniqueStyles, completed, dir))

DownloadResult(styleNo, success, skipped, filePath) ==
  [styleNo |-> styleNo, success |-> success, skipped |-> skipped,
   filePath |-> filePath]

\* results pre-populated for every completed download, requeued or not
ResumeResultsAll(uniqueStyles, completed, dir) ==
  LET kept == SelectSeq(uniqueStyles, LAMBDA s : s \in completed)
  IN [ i \in 1..Len(kept) |-> DownloadResult(kept[i], TRUE, TRUE, SafePdf(kept[i])) ]

\* results pre-populated for the completed downloads that are kept
ResumeResults(uniqueStyles, completed, dir) ==
  LET kept == SelectSeq(uniqueStyles,
                        LAMBDA s : s \in completed /\ IsFreshPdf(dir, SafePdf(s)))
  IN [ i \in 1..Len(kept) |-> DownloadResult(kept[i], TRUE, TRUE, SafePdf(kept[i])) ]

IdleWorker == [pc |-> "idle", styleNo |-> "", ok |-> FALSE, percent |-> 0,
               snapshot |-> {}]

\* what one resume leaves to do
ResumeEntry(queue, results, extracted) ==
  [ downloads |-> SeqToSet(queue),
    extractions |-> { results[i].styleNo : i \in 1..Len(results) } \ extracted ]

LogResume(log, entry) ==
  IF log = <<>> THEN <<entry>> ELSE <<log[Len(log)], entry>>

\* main(): build the queue and start the download workers
ProcResume ==
  /\ alive /\ pc = "resume"
  /\ LET queue == ResumeQueue(cfg.styles, completedDownloads, pdfs)
         results == ResumeResults(cfg.styles, completedDownloads, pdfs)
         workerCount == Min(cfg.parallel, Len(cfg.styles))
     IN /\ styleQueue' = queue
        /\ downloadResults' = results
        /\ completedDownloads' = ResumeCompleted(cfg.styles, completedDownloads, pdfs)
        /\ totalProcessed' = totalProcessed + Len(results)
        /\ workers' = [ w \in 1..workerCount |-> IdleWorker ]
        /\ resumeLog' = LogResume(resumeLog,
                                  ResumeEntry(queue, results, completedExtractions))
        /\ popCount' = [ k \in SeqToSet(queue) |-> 0 ]
  /\ pc' = "pool"
  /\ UNCHANGED <<jobVars, envVars, alive, guard, completedExtractions, partialExtractions,
                 totalStyles, popupPending, stylesToExtract, extractionResults, ex,
                 wdVars, spawns, spawnedSince, overlaps, lastExit, ownPercent, extractCalled,
                 startExtractions,
                 startPartial>>

\* ------------------------------------------------------------------------
\* Acquisition worker pool
\* ------------------------------------------------------------------------
\* a percentage that is not capped below 100
ProgressPercentUncapped(processed, styles) ==
  MathRound(processed * 100, styles * 2)

\* updateProgress: the percentage written for a count of processed items
ProgressPercent(processed, styles) ==
  Min(MathRound(processed * 100, styles * 2), 99)

CountOf(count, styleNo) == IF styleNo \in DOMAIN count THEN count[styleNo] ELSE 0

\* a shift that leaves the popped style in the queue
QueueNotShifted(queue) == queue

\* styleQueue.shift(): the queue it leaves
QueueAfterShift(queue) == Tail(queue)

\* the progress fields of an updateJob call reaching the job store
WriteProgress(j, phase, styleNo, percent) ==
  [j EXCEPT !.current_style = <<phase, styleNo>>, !.progress_percent = percent]

\* a worker takes the next style; a fresh pdf under the style's own name
\* short-circuits to a skipped success
WorkerPop(w) ==
  /\ alive /\ pc = "pool"
  /\ w \in DOMAIN workers /\ workers[w].pc = "idle"
  /\ styleQueue # <<>>
  /\ LET styleNo == Head(styleQueue)
     IN /\ styleQueue' = QueueAfterShift(styleQueue)
        /\ popCount' = (styleNo :> CountOf(popCount, styleNo) + 1) @@ popCount
        /\ IF IsFreshPdf(pdfs, RawPdf(styleNo))
           THEN /\ downloadResults' =
                     Append(downloadResults,
                            DownloadResult(styleNo, TRUE, TRUE, RawPdf(styleNo)))
                /\ totalProcessed' = totalProcessed + 1
                /\ workers' = [workers EXCEPT ![w] =
                     [pc |-> "progress", styleNo |-> styleNo, ok |-> TRUE,
                      percent |-> ProgressPercent(totalProcessed + 1, totalStyles),
                      snapshot |-> {}]]
                /\ resumeLog' = <<>>
           ELSE /\ workers' = [workers EXCEPT ![w] =
                     [IdleWorker EXCEPT !.pc = "downloading", !.styleNo = styleNo]]
                /\ UNCHANGED <<downloadResults, totalProcessed, resumeLog>>
  /\ UNCHANGED <<jobVars, envVars, alive, guard, pc, completedDownloads,
                 completedExtractions, partialExtractions, totalStyles,
                 popupPending, stylesToExtract, extractionResults, ex, wdVars,
                 spawns, spawnedSince, overlaps, lastExit, ownPercent, extractCalled, startExtractions,
                 startPartial>>

\* downloadTechPack returns: "ok" saved the pdf; "failed" caught a fault;
\* "abandoned" caught a fault thrown before page2Promise was awaited, so
\* that promise is left to reject with nobody handling it
DownloadOutcomes == {"ok", "failed", "abandoned"}

DownloadDone(w, outcome) ==
  /\ alive /\ pc = "pool"
  /\ w \in DOMAIN workers /\ workers[w].pc = "downloading"
  /\ outcome = "abandoned" => faults < cfg.budget /\ pc \in cfg.faultAt
  /\ LET styleNo == workers[w].styleNo
         success == outcome = "ok"
     IN /\ pdfs' = IF success THEN [pdfs EXCEPT ![SafePdf(styleNo)] = PdfOfAge(0)] ELSE pdfs
        /\ downloadResults' =
             Append(downloadResults,
                    DownloadResult(styleNo, success, FALSE,
                                   IF success THEN SafePdf(styleNo) ELSE <<>>))
        /\ totalProcessed' = totalProcessed + 1
        /\ workers' = [workers EXCEPT ![w] =
             [pc |-> "progress", styleNo |-> styleNo, ok |-> success,
              percent |-> ProgressPercent(totalProcessed + 1, totalStyles),
              snapshot |-> {}]]
  /\ popupPending' = (popupPending \/ outcome = "abandoned")
  /\ faults' = IF outcome = "abandoned" THEN faults + 1 ELSE faults
  /\ resumeLog' = <<>>
  /\ UNCHANGED <<jobVars, cfg, sheet, orphan, envEvents, procFault, alive, guard, pc, completedDownloads,
                 completedExtractions, partialExtractions, totalStyles, styleQueue,
                 stylesToExtract, extractionResults, ex, wdVars, spawns, spawnedSince,
                 overlaps, lastExit, ownPercent, popCount,
                 extractCalled, startExtractions,
                 startPartial>>

\* the progress write of updateProgress reaches the job store; on success
\* saveCompletedStyle adds the style and sends the whole set
WorkerProgressAck(w) ==
  /\ alive /\ pc = "pool"
  /\ w \in DOMAIN workers /\ workers[w].pc = "progress"
  /\ job' = WriteProgress(job, "download:", workers[w].styleNo, workers[w].percent)
  /\ ownPercent' = workers[w].percent
  /\ IF workers[w].ok
     THEN /\ completedDownloads' = completedDownloads \cup {workers[w].styleNo}
          /\ workers' = [workers EXCEPT ![w].pc = "save",
                           ![w].snapshot = completedDownloads \cup {workers[w].styleNo}]
     ELSE /\ workers' = [workers EXCEPT ![w] = IdleWorker]
          /\ UNCHANGED completedDownloads
  /\ UNCHANGED <<envVars, alive, guard, pc, completedExtractions, partialExtractions,
                 totalProcessed, totalStyles, styleQueue, downloadResults,
                 popupPending, stylesToExtract, extractionResults, ex, wdVars,
                 ackHist>>

\* the completed_downloads write reaches the job store
WorkerSaveAck(w) ==
  /\ alive /\ pc = "pool"
  /\ w \in DOMAIN workers /\ workers[w].pc = "save"
  /\ job' = [job EXCEPT !.completed_downloads = workers[w].snapshot]
  /\ workers' = [workers EXCEPT ![w] = IdleWorker]
  /\ UNCHANGED <<envVars, alive, guard, pc, completedDownloads, completedExtractions,
                 partialExtractions, totalProcessed, totalStyles, styleQueue,
                 downloadResults, popupPending, stylesToExtract, extractionResults,
                 ex, wdVars, histVars>>

\* the queue is empty: the worker closes its context and finishes
WorkerExit(w) ==
  /\ alive /\ pc = "pool"
  /\ w \in DOMAIN workers /\ workers[w].pc = "idle"
  /\ styleQueue = <<>>
  /\ workers' = [workers EXCEPT ![w].pc = "done"]
  /\ UNCHANGED <<jobVars, envVars, alive, guard, pc, completedDownloads,
                 completedExtractions, partialExtractions, totalProcessed,
                 totalStyles, styleQueue, downloadResults, popupPending,
                 stylesToExtract, extractionResults, ex, wdVars, histVars>>

\* ------------------------------------------------------------------------
\* Extraction stage
\* ------------------------------------------------------------------------
successfulDownloads(results) == SelectSeq(results, LAMBDA r : r.success)

\* every successful download, extracted before or not
StylesToExtractAll(results, extracted) == successfulDownloads(results)

\* every style of the input not yet extracted, under the name its pdf would
\* have, downloaded or not
StylesToExtractUnchecked(results, extracted) ==
  LET todo == SelectSeq(cfg.styles, LAMBDA s : s \notin extracted)
  IN [ i \in 1..Len(todo) |-> DownloadResult(todo[i], TRUE, TRUE, SafePdf(todo[i])) ]

\* the successful downloads not yet extracted
StylesToExtract(results, extracted) ==
  SelectSeq(successfulDownloads(results), LAMBDA d : d.styleNo \notin extracted)

\* successful downloads already extracted, counted toward progress
AlreadyExtracted(results, extracted) ==
  Len(SelectSeq(successfulDownloads(results), LAMBDA d : d.styleNo \in extracted))

\* every download worker has finished: close the browser, pick the styles
\* to extract.  Closing the browser rejects an abandoned popup promise, so
\* main() does not get past this point with one pending.
PoolDone ==
  /\ alive /\ pc = "pool"
  /\ \A w \in DOMAIN workers : workers[w].pc = "done"
  /\ ~popupPending
  /\ stylesToExtract' = StylesToExtract(downloadResults, completedExtractions)
  /\ totalProcessed' =
       totalProcessed + AlreadyExtracted(downloadResults, completedExtractions)
  /\ ex' = [IdleEx EXCEPT !.pc = "call"]
  /\ pc' = "extract"
  /\ UNCHANGED <<jobVars, envVars, alive, guard, completedDownloads, completedExtractions,
                 partialExtractions, totalStyles, styleQueue, downloadResults,
                 workers, popupPending, extractionResults, wdVars, histVars>>

\* what one call of the extraction service can give
ServiceOutcomes ==
  { [kind |-> "text", text |-> t, message |-> <<>>] : t \in ResponseTexts }
    \cup { [kind |-> "rate_limit", text |-> <<>>, message |-> RateLimited] }
    \cup { [kind |-> "error", text |-> <<>>, message |-> m] :
             m \in {Overloaded, PromptTooLong} }

\* the message of the error extractAttributesFromPdf catches: readFileSync's
\* when the pdf is missing, else the one the service call threw
ExtractionError(d, outcome) ==
  IF pdfs[d.filePath] = "missing" THEN NoSuchFile \o d.filePath ELSE outcome.message

\* the test for a rate limit, made on the message of the error
IsRateLimitError(errorMsg) ==
  Includes(errorMsg, <<"4", "2", "9">>) \/ Includes(errorMsg, <<"rate_limit">>)

\* a rate-limit wait that grows by one minute per retry
waitTimeLinear(retryCount) == (retryCount + 1) * 2 * RATE_LIMIT_BASE_MS

\* the wait before the retry of a rate-limited call, in ms
waitTime(retryCount) == (2 ^ (retryCount + 1)) * RATE_LIMIT_BASE_MS

\* the wait before retry number retryCount + 1
WaitBeforeRetry(d, outcome, retryCount) ==
  IF /\ pdfs[d.filePath] # "missing" /\ outcome.kind = "text"
  THEN PARSE_RETRY_MS
  ELSE waitTime(retryCount)

\* extractAttributesFromPdf calls itself with retryCount + 1: after a parse
\* failure, or after an error whose message passes the rate-limit test
Retries(d, outcome, retryCount) ==
  LET readable == pdfs[d.filePath] # "missing"
      parseFailure == /\ readable /\ outcome.kind = "text"
                      /\ ~extractJsonFromText(outcome.text).ok
      thrown == ~readable \/ outcome.kind # "text"
  IN /\ retryCount < MAX_RETRIES
     /\ \/ parseFailure
        \/ thrown /\ IsRateLimitError(ExtractionError(d, outcome))

\* the extraction loop moves to the next download
NextItemNoDelay(e) == [IdleEx EXCEPT !.pc = "call", !.idx = e.idx + 1]

\* the same, after the delay main() puts behind every extraction
NextItem(e) ==
  [IdleEx EXCEPT !.pc = "call", !.idx = e.idx + 1, !.waited = INTER_CALL_DELAY_MS]

\* one attempt of extractAttributesFromPdf: read the pdf, call the service,
\* parse the answer; a parse failure or a rate limit is retried while
\* retryCount < MAX_RETRIES.  The loop passes over a download that has no
\* file path.
ExtractAttempt(outcome) ==
  /\ alive /\ pc = "extract"
  /\ ex.pc = "call" /\ ex.idx <= Len(stylesToExtract)
  /\ LET d == stylesToExtract[ex.idx]
         readable == pdfs[d.filePath] # "missing"
         parsed == extractJsonFromText(outcome.text)
         success == readable /\ outcome.kind = "text" /\ parsed.ok
         retry == Retries(d, outcome, ex.retryCount)
         result == [styleNo |-> d.styleNo, success |-> success,
                    data |-> IF success THEN parsed.value ELSE <<>>]
         calls == ex.calls + IF readable THEN 1 ELSE 0
     IN IF d.filePath = <<>>
        THEN /\ ex' = [NextItem(ex) EXCEPT !.waited = ex.waited]
             /\ UNCHANGED <<extractionResults, totalProcessed, resumeLog,
                            extractCalled>>
        ELSE /\ extractCalled' = IF readable THEN extractCalled \cup {d.styleNo}
                                              ELSE extractCalled
             /\ IF retry
                THEN /\ ex' = [ex EXCEPT !.retryCount = @ + 1, !.calls = calls,
                                 !.waited = WaitBeforeRetry(d, outcome, ex.retryCount)]
                     /\ UNCHANGED <<extractionResults, totalProcessed, resumeLog>>
                ELSE /\ extractionResults' = Append(extractionResults, result)
                     /\ totalProcessed' = totalProcessed + 1
                     /\ ex' = [ex EXCEPT !.pc = "progress", !.result = result,
                                 !.calls = calls, !.waited = 0,
                                 !.percent = ProgressPercent(totalProcessed + 1,
                                                             totalStyles)]
                     /\ resumeLog' = <<>>
  /\ UNCHANGED <<jobVars, envVars, alive, guard, pc, completedDownloads,
                 completedExtractions, partialExtractions, totalStyles, styleQueue,
                 downloadResults, workers, popupPending, stylesToExtract, wdVars,
                 spawns, spawnedSince, overlaps, lastExit, ownPercent, popCount, startExtractions,
                 startPartial>>

\* saveCompletedStyle("extract"): the entry is stored when the data is truthy
SavePartial(partial, styleNo, data) ==
  IF Falsy(data) THEN partial ELSE (styleNo :> data) @@ partial

\* the progress write reaches the job store; on success the style and its
\* data are added and both fields are sent in one update
ExtractProgressAck ==
  /\ alive /\ pc = "extract" /\ ex.pc = "progress"
  /\ job' = WriteProgress(job, "extract:", ex.result.styleNo, ex.percent)
  /\ ownPercent' = ex.percent
  /\ IF ex.result.success
     THEN LET completed == completedExtractions \cup {ex.result.styleNo}
              partial == SavePartial(partialExtractions, ex.result.styleNo,
                                     ex.result.data)
          IN /\ completedExtractions' = completed
             /\ partialExtractions' = partial
             /\ ex' = [ex EXCEPT !.pc = "save", !.completed = completed,
                         !.partial = partial]
     ELSE /\ ex' = NextItem(ex)
          /\ UNCHANGED <<completedExtractions, partialExtractions>>
  /\ UNCHANGED <<envVars, alive, guard, pc, completedDownloads, totalProcessed,
                 totalStyles, styleQueue, downloadResults, workers, popupPending,
                 stylesToExtract, extractionResults, wdVars, ackHist>>

\* the completed_extractions / partial_extractions write reaches the store
ExtractSaveAck ==
  /\ alive /\ pc = "extract" /\ ex.pc = "save"
  /\ job' = [job EXCEPT !.completed_extractions = ex.completed,
                        !.partial_extractions = ex.partial]
  /\ ex' = NextItem(ex)
  /\ UNCHANGED <<envVars, alive, guard, pc, completedDownloads, completedExtractions,
                 partialExtractions, totalProcessed, totalStyles, styleQueue,
                 downloadResults, workers, popupPending, stylesToExtract,
                 extractionResults, wdVars, histVars>>

\* an assembly of the results of the current run only
allExtractionResultsNewOnly(results, partial, uniqueStyles) == results

\* the new results, then the stored partial extractions of the styles that
\* have no new result
allExtractionResults(results, partial, uniqueStyles) ==
  LET resumed == SelectSeq(uniqueStyles,
                   LAMBDA s : /\ s \in DOMAIN partial
                              /\ \A i \in 1..Len(results) : results[i].styleNo # s)
  IN results \o [ i \in 1..Len(resumed) |->
                    [styleNo |-> resumed[i], success |-> TRUE,
                     data |-> partial[resumed[i]]] ]

\* prepareExtractedData: style -> data of its successful results
extractionMap(results) ==
  LET used == { i \in 1..Len(results) :
                  results[i].success /\ ~Falsy(results[i].data) }
  IN [ s \in { results[i].styleNo : i \in used } |->
         results[CHOOSE i \in used :
                   /\ results[i].styleNo = s
                   /\ \A j \in used : results[j].styleNo = s => j <= i].data ]

\* ------------------------------------------------------------------------
\* Input table and output assembly
\* ------------------------------------------------------------------------
\* texts are sequences of characters; the names the model uses
ITEM_ID == <<"I", "T", "E", "M", " ", "I", "D">>
COO == <<"C", "O", "O">>
LINING == <<"L", "I", "N", "I", "N", "G">>
PDF_LINK == <<"P", "D", "F", "_", "L", "I", "N", "K">>
NotApplicable == { <<"N", "/", "A">>, <<"n", "/", "a">> }

\* the letters that occur in the model's texts, small and capital
CasePairs ==
  { <<"d", "D">>, <<"e", "E">>, <<"g", "G">>, <<"i", "I">>, <<"k", "K">>,
    <<"l", "L">>, <<"m", "M">>, <<"n", "N">>, <<"s", "S">>, <<"t", "T">>,
    <<"u", "U">>, <<"y", "Y">> }

toUpperCase(s) ==
  [ i \in 1..Len(s) |->
      IF \E p \in CasePairs : p[1] = s[i]
      THEN (CHOOSE p \in CasePairs : p[1] = s[i])[2] ELSE s[i] ]

toLowerCase(s) ==
  [ i \in 1..Len(s) |->
      IF \E p \in CasePairs : p[2] = s[i]
      THEN (CHOOSE p \in CasePairs : p[2] = s[i])[1] ELSE s[i] ]

trim(s) ==
  LET inked == { i \in 1..Len(s) : s[i] # " " }
  IN IF inked = {} THEN <<>>
     ELSE SubSeq(s, CHOOSE i \in inked : \A j \in inked : i <= j,
                    CHOOSE i \in inked : \A j \in inked : j <= i)

\* FIELD_DEFINITIONS, with the fields the model keeps of each source
FIELD_DEFINITIONS ==
  << [field_name |-> ITEM_ID, source |-> "input_csv"],
     [field_name |-> COO, source |-> "input_csv"],
     [field_name |-> LINING, source |-> "tech_pack"] >>

FieldNames(defs) == [ i \in 1..Len(defs) |-> defs[i].field_name ]

getAllFieldDefinitions == FIELD_DEFINITIONS

getTechPackFields == SelectSeq(FIELD_DEFINITIONS, LAMBDA f : f.source = "tech_pack")

\* the first row is the header when its first cell mentions style or item
IsHeaderRow(cleanCols) ==
  \/ Includes(toLowerCase(cleanCols[1]), <<"s", "t", "y", "l", "e">>)
  \/ Includes(toLowerCase(cleanCols[1]), <<"i", "t", "e", "m">>)

\* headerMap / rowData: the column a name stands for, the last one of that
\* name; 0 when the header has none
ColumnOf(header, name) ==
  LET named == { idx \in 1..Len(header) :
                   header[idx] # <<>> /\ trim(toUpperCase(header[idx])) = name }
  IN IF named = {} THEN 0 ELSE CHOOSE idx \in named : \A other \in named : other <= idx

\* cleanCols[idx] || ""
CellAt(cleanCols, idx) ==
  IF idx \in 1..Len(cleanCols) THEN cleanCols[idx] ELSE <<>>

\* itemId.split("-")[0]
StylePrefix(itemId) ==
  IF IndexOf(itemId, "-") = 0 THEN itemId
  ELSE SubSeq(itemId, 1, IndexOf(itemId, "-") - 1)

\* the entry readStylesFromCSV stores for one line
ParsedRow(cleanCols, header, lineIndex) ==
  LET first == CellAt(cleanCols, 1)
      named == CellAt(cleanCols, ColumnOf(header, ITEM_ID))
      itemId == IF ColumnOf(header, ITEM_ID) # 0 /\ named # <<>> THEN named ELSE first
      names == { trim(toUpperCase(header[idx])) :
                   idx \in { i \in 1..Len(header) : header[i] # <<>> } }
  IN [ itemId |-> itemId,
       styleNo |-> StylePrefix(itemId),
       originalRow |-> cleanCols,
       rowData |-> [ n \in names |-> CellAt(cleanCols, ColumnOf(header, n)) ],
       lineIndex |-> lineIndex ]

\* readStylesFromCSV on the non-blank lines of the file, each split into
\* its cells: the unique styles in first-seen order and the rows of each
readStylesFromCSV(lines) ==
  LET hasHeader == lines # <<>> /\ IsHeaderRow(lines[1])
      header == IF hasHeader THEN lines[1] ELSE <<>>
      parsed == [ i \in 1..Len(lines) |-> ParsedRow(lines[i], header, i - 1) ]
      kept == SelectSeq(parsed, LAMBDA r : /\ ~(hasHeader /\ r.lineIndex = 0)
                                           /\ r.styleNo # <<>>)
      firsts == SelectSeq([ i \in 1..Len(kept) |-> i ],
                          LAMBDA i : \A j \in 1..(i - 1) :
                                       kept[j].styleNo # kept[i].styleNo)
      uniqueStyles == [ k \in 1..Len(firsts) |-> kept[firsts[k]].styleNo ]
  IN [ uniqueStyles |-> uniqueStyles,
       styleToRows |-> [ s \in SeqToSet(uniqueStyles) |->
                           SelectSeq(kept, LAMBDA r : r.styleNo = s) ],
       hasHeader |-> hasHeader,
       header |-> header ]

\* the answers of the extraction service the model uses, by the middle word
\* of the parsed data: what each holds for a field
Undefined == [type |-> "undefined"]

FieldOf(data, fieldName) ==
  IF fieldName # LINING THEN Undefined
  ELSE CASE data[2] = "fields" ->
              [type |-> "object", value |-> <<"P">>, logic |-> <<"l", "a", "b", "e", "l">>,
               needs_review |-> TRUE]
         [] data[2] = "na" ->
              [type |-> "object", value |-> <<"N", "/", "A">>, logic |-> <<>>,
               needs_review |-> FALSE]
         [] data[2] = "plain" -> [type |-> "string", value |-> <<"P">>]
         [] OTHER -> Undefined

\* getValue / getLogic / getNeedsReview of prepareExtractedData
getValue(field) ==
  IF field.type = "undefined" THEN <<>>
  ELSE IF field.value \in NotApplicable THEN <<>>
  ELSE field.value

getLogic(field) == IF field.type = "object" THEN field.logic ELSE <<>>

getNeedsReview(field) == IF field.type = "object" THEN field.needs_review ELSE FALSE

\* the public link of a style's pdf, without the storage host
PdfUrl(styleNo) == <<"Tech_Pack_">> \o safe(styleNo) \o <<".pdf">>

\* (origRow.rowData && origRow.rowData[fieldName.toUpperCase().trim()]) || ""
InputValue(origRow, fieldName) ==
  IF trim(toUpperCase(fieldName)) \in DOMAIN origRow.rowData
  THEN origRow.rowData[trim(toUpperCase(fieldName))]
  ELSE <<>>

\* a cell that takes the extracted value first
CellValueExtractedFirst(origRow, fieldName, field, techPackFieldNames) ==
  IF fieldName \in SeqToSet(techPackFieldNames) /\ getValue(field) # <<>>
  THEN getValue(field)
  ELSE InputValue(origRow, fieldName)

\* the value of one cell of an output row
CellValue(origRow, fieldName, field, techPackFieldNames) ==
  IF fieldName \in SeqToSet(techPackFieldNames)
  THEN IF InputValue(origRow, fieldName) # <<>>
          /\ trim(InputValue(origRow, fieldName)) # <<>>
       THEN InputValue(origRow, fieldName)
       ELSE getValue(field)
  ELSE InputValue(origRow, fieldName)

\* concatenation of a sequence of sequences
RECURSIVE Flatten(_)
Flatten(seqs) == IF seqs = <<>> THEN <<>> ELSE Head(seqs) \o Flatten(Tail(seqs))

\* prepareExtractedData: an output row for every row of every style, in
\* the order of Object.keys(styleToRows), and the rows of the logic tab
prepareExtractedData(results, styleToRows, keys) ==
  LET map == extractionMap(results)
      allFieldNames == FieldNames(getAllFieldDefinitions)
      techPackFieldNames == FieldNames(getTechPackFields)
      fieldOf(styleNo, fieldName) ==
        IF styleNo \in DOMAIN map THEN FieldOf(map[styleNo], fieldName) ELSE Undefined
      pdfUrl(styleNo) == IF styleNo \in DOMAIN map THEN PdfUrl(styleNo) ELSE <<>>
      rowOf(styleNo, origRow) ==
        [ name \in SeqToSet(allFieldNames) \cup {PDF_LINK} |->
            IF name = PDF_LINK THEN pdfUrl(styleNo)
            ELSE CellValue(origRow, name, fieldOf(styleNo, name), techPackFieldNames) ]
      logicOf(styleNo) ==
        [ f \in 1..Len(techPackFieldNames) |->
            [ style |-> styleNo, field |-> techPackFieldNames[f],
              value |-> getValue(fieldOf(styleNo, techPackFieldNames[f])),
              logic |-> getLogic(fieldOf(styleNo, techPackFieldNames[f])),
              needs_review |->
                IF getNeedsReview(fieldOf(styleNo, techPackFieldNames[f]))
                THEN "YES" ELSE "NO" ] ]
  IN [ headers |-> Append(allFieldNames, PDF_LINK),
       rows |-> Flatten([ k \in 1..Len(keys) |->
                            [ r \in 1..Len(styleToRows[keys[k]]) |->
                                rowOf(keys[k], styleToRows[keys[k]][r]) ] ]),
       logicRows |-> Flatten([ k \in 1..Len(keys) |-> logicOf(keys[k]) ]) ]

\* the job record main() writes when the job is finished
CompletionWrite(j, results, partial, styles) ==
  LET successfulExtractions == SelectSeq(results, LAMBDA r : r.success)
  IN [j EXCEPT
        !.status = "ready_for_export",
        !.progress_percent = 100,
        !.successful_count = Len(successfulExtractions),
        !.failed_count = styles - Len(successfulExtractions),
        !.extracted_data =
           [present |-> TRUE,
            map |-> extractionMap(allExtractionResults(results, partial, cfg.styles))]]

\* main(): assemble the output and finish the job; the process ends, unless
\* a fault interceptor still has its exit to make
ProcComplete ==
  /\ alive /\ pc = "extract"
  /\ ex.pc = "call" /\ ex.idx > Len(stylesToExtract)
  /\ job' = CompletionWrite(job, extractionResults, partialExtractions, totalStyles)
  /\ IF guard THEN ProcAbandon("exiting") /\ UNCHANGED lastExit
              ELSE ProcExit("0")
  /\ UNCHANGED <<envVars, wdVars, runHist>>

\* ------------------------------------------------------------------------
\* Process-fatal events
\* ------------------------------------------------------------------------
\* the process is killed (out of memory, host restart): nothing is written
ProcKill ==
  /\ alive /\ pc \in cfg.faultAt
  /\ faults < cfg.budget
  /\ faults' = faults + 1
  /\ procFault' = TRUE
  /\ ProcExit("killed")
  /\ UNCHANGED <<jobVars, cfg, sheet, orphan, pdfs, envEvents, wdVars, runHist>>

\* the catch block of main(): an exception of the pipeline (input download,
\* browser launch, a download worker outside downloadTechPack) marks the job
\* failed; the process exits once the update has returned
PipelineFault(msg) ==
  /\ alive /\ pc \in {"begin", "pool"} \cap cfg.faultAt
  /\ faults < cfg.budget
  /\ faults' = faults + 1
  /\ procFault' = TRUE
  /\ job' = [job EXCEPT !.status = "failed", !.error_message = msg]
  /\ ProcAbandon("exiting")
  /\ UNCHANGED <<cfg, sheet, orphan, pdfs, envEvents, wdVars, histVars>>

\* process.on('unhandledRejection'): the abandoned popup promise rejects;
\* the handler sends the update that marks the job failed (stored tells
\* whether the job store took it) and awaits the answer, while the
\* pipeline goes on
UnhandledRejection(stored) ==
  /\ alive /\ popupPending /\ ~guard
  /\ job' = IF stored
            THEN [job EXCEPT !.status = "failed",
                             !.error_message =
                                UnhandledRejectionMessage(PopupNeverOpened)]
            ELSE job
  /\ guard' = TRUE
  /\ popupPending' = FALSE
  /\ UNCHANGED <<envVars, alive, pc, completedDownloads, completedExtractions,
                 partialExtractions, totalProcessed, totalStyles, styleQueue,
                 downloadResults, workers, stylesToExtract, extractionResults,
                 ex, wdVars, histVars>>

\* process.on('uncaughtException'): an exception nobody catches (thrown in
\* a timer or event callback); the handler sends the update that marks
\* the job failed and awaits the answer, while the pipeline goes on
UncaughtException(stored) ==
  /\ alive /\ pc \in Positions \cap cfg.faultAt /\ ~guard
  /\ faults < cfg.budget
  /\ faults' = faults + 1
  /\ job' = IF stored
            THEN [job EXCEPT !.status = "failed",
                             !.error_message = CrashMessage(UncaughtError)]
            ELSE job
  /\ guard' = TRUE
  /\ UNCHANGED <<cfg, sheet, orphan, pdfs, envEvents, procFault, alive, pc,
                 completedDownloads, completedExtractions, partialExtractions,
                 totalProcessed, totalStyles, styleQueue, downloadResults,
                 workers, popupPending, stylesToExtract, extractionResults, ex,
                 wdVars, histVars>>

\* an exit that reports success
ProcessExitClean ==
  /\ alive /\ (pc = "exiting" \/ guard)
  /\ ProcExit("0")
  /\ UNCHANGED <<jobVars, envVars, wdVars, runHist>>

\* the update of the catch block or of a fault interceptor has returned:
\* stopHeartbeat / clearInterval, then process.exit(1)
ProcessExit ==
  /\ alive /\ (pc = "exiting" \/ guard)
  /\ ProcExit("1")
  /\ UNCHANGED <<jobVars, envVars, wdVars, runHist>>

\* ------------------------------------------------------------------------
\* Artifact directory, changed from outside
\* ------------------------------------------------------------------------
\* a pdf grows older than the freshness window
PdfExpires(name) ==
  /\ envEvents < MaxEnvEvents
  /\ name \in DOMAIN pdfs /\ pdfs[name] = "fresh"
  /\ pdfs' = [pdfs EXCEPT ![name] = PdfOfAge(PDF_FRESHNESS_DAYS + 1)]
  /\ envEvents' = envEvents + 1
  /\ resumeLog' = <<>>
  /\ UNCHANGED <<jobVars, cfg, sheet, orphan, faults, procFault, procVars, wdVars, spawns, spawnedSince, overlaps, lastExit,
                 ownPercent,
                 popCount,
                 extractCalled, startExtractions,
                 startPartial>>

\* a pdf disappears (the directory is wiped)
PdfLost(name) ==
  /\ envEvents < MaxEnvEvents
  /\ name \in DOMAIN pdfs /\ pdfs[name] # "missing"
  /\ pdfs' = [pdfs EXCEPT ![name] = "missing"]
  /\ envEvents' = envEvents + 1
  /\ resumeLog' = <<>>
  /\ UNCHANGED <<jobVars, cfg, sheet, orphan, faults, procFault, procVars, wdVars, spawns, spawnedSince, overlaps, lastExit,
                 ownPercent,
                 popCount,
                 extractCalled, startExtractions,
                 startPartial>>

\* ------------------------------------------------------------------------
\* Time and the watchdog
\* ------------------------------------------------------------------------
\* a heartbeat period longer than the stale threshold
HeartbeatsPerIntervalSlow == CHECK_INTERVAL_MS \div (3 * STALE_THRESHOLD_MS)

\* heartbeats of a live worker within one poll interval
HeartbeatsPerInterval == CHECK_INTERVAL_MS \div HEARTBEAT_MS

\* one poll interval passes: a live worker has refreshed updated_at, and
\* the watchdog's interval callback starts
Tick ==
  /\ wdpc = "idle"
  /\ job' = [job EXCEPT !.updated_at =
               IF alive /\ HeartbeatsPerInterval >= 1 THEN 0 ELSE Min(@ + 1, AgeCap)]
  /\ wdpc' = "dead"
  /\ UNCHANGED <<envVars, procVars, restartAttempts, wdJob, histVars>>

\* one poll interval passes in which no heartbeat update of the live worker
\* reached the job store (startHeartbeat logs the failure and goes on)
TickSilent ==
  /\ wdpc = "idle"
  /\ alive /\ "heartbeat" \in cfg.faultAt
  /\ faults < cfg.budget
  /\ faults' = faults + 1
  /\ job' = [job EXCEPT !.updated_at = Min(@ + 1, AgeCap)]
  /\ wdpc' = "dead"
  /\ UNCHANGED <<cfg, sheet, orphan, pdfs, envEvents, procFault, procVars, restartAttempts, wdJob,
                 histVars>>

RowOf(j) == [found |-> TRUE, progress_percent |-> j.progress_percent,
             current_style |-> j.current_style]

\* checkForFailedJobs: the query and the filter; then restartJob for a
\* match, else cleanupRestartAttempts, which returns at once when nothing
\* is tracked
FailedMatch(j) ==
  /\ j.status = "failed"
  /\ IsRecent(j.updated_at)
  /\ isRetryableError(j.error_message)

AfterFailedQuery(j, attempts) ==
  IF FailedMatch(j) THEN "failedRestart"
  ELSE IF DOMAIN attempts = {} THEN "idle"
  ELSE "cleanup"

\* a query for stalled jobs that looks at queued jobs
DeadMatchQueued(j) == j.status = "queued" /\ IsStale(j.updated_at)

\* checkForDeadJobs: the query
DeadMatch(j) == j.status = "processing" /\ IsStale(j.updated_at)

\* the interval callback: checkForDeadJobs finds the job stalled, or finds
\* nothing and checkForFailedJobs runs its query
WdDeadQuery ==
  /\ wdpc = "dead"
  /\ wdpc' = IF DeadMatch(job) THEN "deadRestart"
             ELSE AfterFailedQuery(job, restartAttempts)
  /\ wdJob' = IF DeadMatch(job) \/ FailedMatch(job) THEN RowOf(job) ELSE NoRow
  /\ UNCHANGED <<jobVars, envVars, procVars, restartAttempts, histVars>>

\* checkForFailedJobs after a stalled job was handled
WdFailedQuery ==
  /\ wdpc = "failed"
  /\ wdpc' = AfterFailedQuery(job, restartAttempts)
  /\ wdJob' = IF FailedMatch(job) THEN RowOf(job) ELSE NoRow
  /\ UNCHANGED <<jobVars, envVars, procVars, restartAttempts, histVars>>

AttemptsOf(attempts) == IF JOB_ID \in DOMAIN attempts THEN attempts[JOB_ID] ELSE 0

\* a counter that is set to 1 by every spawn
CountedOnce(attempts, n) == (JOB_ID :> 1) @@ attempts

\* restartAttempts.set(job.id, attempts + 1)
Counted(attempts, n) == (JOB_ID :> n + 1) @@ attempts

\* restartAttempts.delete(job.id)
Untracked(attempts) == [ id \in DOMAIN attempts \ {JOB_ID} |-> attempts[id] ]

\* spawn() starts a second processor and ends nothing: a processor that is
\* about to call the extraction service stays in its loop
LeavesOrphan ==
  /\ "overlap" \in cfg.faultAt
  /\ ~orphan.running
  /\ alive /\ ~guard /\ pc = "extract"
  /\ ex.pc = "call" /\ ex.retryCount = 0 /\ ex.idx <= Len(stylesToExtract)

\* what that processor holds in memory
OrphanOf ==
  [running |-> TRUE,
   todo |-> SubSeq(stylesToExtract, ex.idx, Len(stylesToExtract)),
   retryCount |-> 0,
   completed |-> completedExtractions,
   partial |-> partialExtractions,
   results |-> extractionResults,
   totalProcessed |-> totalProcessed,
   totalStyles |-> totalStyles]

\* the job record restartJob leaves when the attempts are used up
GiveUpWrite(j, reason, attempts, row) ==
  IF reason = "dead"
  THEN [j EXCEPT !.status = "failed",
                 !.error_message = CrashedMessage(attempts, row.progress_percent,
                                                  row.current_style)]
  ELSE j

\* a restart write that leaves the error message of the failed run
RestartWriteKeepsError(j, attempts) ==
  [j EXCEPT !.status = "processing",
            !.updated_at = 0,
            !.current_style = <<"restarting", "(attempt", ToString(attempts + 1), ")">>]

\* a restart write that also resets the progress
RestartWriteResetsProgress(j, attempts) ==
  [j EXCEPT !.status = "processing",
            !.updated_at = 0,
            !.current_style = <<"restarting", "(attempt", ToString(attempts + 1), ")">>,
            !.error_message = <<>>,
            !.progress_percent = 0]

\* a restart write that also forgets the recorded downloads
RestartWriteDropsDownloads(j, attempts) ==
  [j EXCEPT !.status = "processing",
            !.updated_at = 0,
            !.current_style = <<"restarting", "(attempt", ToString(attempts + 1), ")">>,
            !.error_message = <<>>,
            !.completed_downloads = {}]

\* the job record restartJob writes before it spawns a processor
RestartWrite(j, attempts) ==
  [j EXCEPT !.status = "processing",
            !.updated_at = 0,
            !.current_style = <<"restarting", "(attempt", ToString(attempts + 1), ")">>,
            !.error_message = <<>>]

restartJob(reason) ==
  LET attempts == AttemptsOf(restartAttempts)
  IN IF attempts >= MAX_RESTART_ATTEMPTS
     THEN /\ job' = GiveUpWrite(job, reason, attempts, wdJob)
          /\ restartAttempts' = Untracked(restartAttempts)
          /\ spawnedSince' = 0
          /\ UNCHANGED <<procVars, orphan, spawns, overlaps>>
     ELSE /\ job' = RestartWrite(job, attempts)
          /\ alive' = TRUE
          /\ guard' = FALSE
          /\ pc' = "load"
          /\ ProcReset
          /\ spawns' = spawns + 1
          /\ spawnedSince' = spawnedSince + 1
          /\ overlaps' = (overlaps \/ alive)
          /\ orphan' = IF LeavesOrphan THEN OrphanOf ELSE orphan
          /\ restartAttempts' = Counted(restartAttempts, attempts)

WdDeadRestart ==
  /\ wdpc = "deadRestart"
  /\ restartJob("dead")
  /\ wdJob' = NoRow
  /\ wdpc' = "failed"
  /\ UNCHANGED <<cfg, sheet, pdfs, faults, envEvents, procFault, lastExit, ownPercent,
                 popCount, extractCalled, startExtractions, startPartial, resumeLog>>

WdFailedRestart ==
  /\ wdpc = "failedRestart"
  /\ restartJob("failed-retry")
  /\ wdJob' = NoRow
  /\ wdpc' = IF DOMAIN restartAttempts' = {} THEN "idle" ELSE "cleanup"
  /\ UNCHANGED <<cfg, sheet, pdfs, faults, envEvents, procFault, lastExit, ownPercent,
                 popCount, extractCalled, startExtractions, startPartial, resumeLog>>

\* cleanupRestartAttempts
WdCleanup ==
  /\ wdpc = "cleanup"
  /\ restartAttempts' = IF JOB_ID \in DOMAIN restartAttempts /\ job.status # "processing"
                        THEN Untracked(restartAttempts)
                        ELSE restartAttempts
  /\ spawnedSince' = IF restartAttempts' # restartAttempts THEN 0 ELSE spawnedSince
  /\ wdpc' = "idle"
  /\ UNCHANGED <<jobVars, envVars, procVars, wdJob, spawns, overlaps, lastExit, ownPercent,
                 popCount, extractCalled, startExtractions, startPartial, resumeLog>>

\* ------------------------------------------------------------------------
\* Specifications
\* ------------------------------------------------------------------------
Next ==
  \/ ProcLoad
  \/ ProcLoadFails
  \/ ProcBegin
  \/ ProcResume
  \/ \E w \in DOMAIN workers : WorkerPop(w)
  \/ \E w \in DOMAIN workers, outcome \in DownloadOutcomes : DownloadDone(w, outcome)
  \/ \E w \in DOMAIN workers : WorkerProgressAck(w)
  \/ \E w \in DOMAIN workers : WorkerSaveAck(w)
  \/ \E w \in DOMAIN workers : WorkerExit(w)
  \/ PoolDone
  \/ \E outcome \in ServiceOutcomes : ExtractAttempt(outcome)
  \/ ExtractProgressAck
  \/ ExtractSaveAck
  \/ ProcComplete
  \/ ProcKill
  \/ \E msg \in PipelineErrors : PipelineFault(msg)
  \/ \E stored \in BOOLEAN : UnhandledRejection(stored)
  \/ \E stored \in BOOLEAN : UncaughtException(stored)
  \/ ProcessExit
  \/ \E name \in DOMAIN pdfs : PdfExpires(name)
  \/ \E name \in DOMAIN pdfs : PdfLost(name)
  \/ Tick
  \/ WdDeadQuery
  \/ WdDeadRestart
  \/ WdFailedQuery
  \/ WdFailedRestart
  \/ WdCleanup

\* two styles, one or two download workers
Spec == Init /\ [][Next]_vars

\* the worker process and the watchdog, with no change of the artifact
\* directory from outside and no abandoned popup promise
NextW ==
  \/ ProcLoad
  \/ ProcBegin
  \/ ProcResume
  \/ \E w \in DOMAIN workers : WorkerPop(w)
  \/ \E w \in DOMAIN workers, outcome \in DownloadOutcomes : DownloadDone(w, outcome)
  \/ \E w \in DOMAIN workers : WorkerProgressAck(w)
  \/ \E w \in DOMAIN workers : WorkerSaveAck(w)
  \/ \E w \in DOMAIN workers : WorkerExit(w)
  \/ PoolDone
  \/ \E outcome \in ServiceOutcomes : ExtractAttempt(outcome)
  \/ ExtractProgressAck
  \/ ExtractSaveAck
  \/ ProcComplete
  \/ ProcKill
  \/ \E msg \in PipelineErrors : PipelineFault(msg)
  \/ ProcessExit
  \/ Tick
  \/ WdDeadQuery
  \/ WdDeadRestart
  \/ WdFailedQuery
  \/ WdFailedRestart
  \/ WdCleanup

\* one style, one download worker, and faults enough to use up the
\* restart attempts of the watchdog, injected while the input is fetched
InitW == InitWith(<<"A1">>, 1, MaxFaultsW, {"begin"})

SpecW == InitW /\ [][NextW]_vars

\* the watchdog's timer keeps firing and each of its calls returns
WatchdogFairness ==
  /\ WF_vars(Tick)
  /\ WF_vars(WdDeadQuery)
  /\ WF_vars(WdDeadRestart)
  /\ WF_vars(WdFailedQuery)
  /\ WF_vars(WdFailedRestart)
  /\ WF_vars(WdCleanup)

\* SpecW with a watchdog that keeps polling
SpecWF == InitW /\ [][NextW]_vars /\ WatchdogFairness

\* the worker process and the watchdog while heartbeat updates can fail
NextH ==
  \/ ProcLoad
  \/ ProcBegin
  \/ ProcResume
  \/ \E w \in DOMAIN workers : WorkerPop(w)
  \/ \E w \in DOMAIN workers, outcome \in DownloadOutcomes : DownloadDone(w, outcome)
  \/ \E w \in DOMAIN workers : WorkerProgressAck(w)
  \/ \E w \in DOMAIN workers : WorkerSaveAck(w)
  \/ \E w \in DOMAIN workers : WorkerExit(w)
  \/ PoolDone
  \/ \E outcome \in ServiceOutcomes : ExtractAttempt(outcome)
  \/ ExtractProgressAck
  \/ ExtractSaveAck
  \/ ProcComplete
  \/ Tick
  \/ TickSilent
  \/ WdDeadQuery
  \/ WdDeadRestart
  \/ WdFailedQuery
  \/ WdCleanup

\* one style, one download worker, no fault but heartbeat updates that do
\* not reach the job store
InitH == InitWith(<<"A1">>, 1, MaxSilent, {"heartbeat"})

SpecH == InitH /\ [][NextH]_vars

\* ------------------------------------------------------------------------
\* A processor that runs on after the watchdog has restarted its job
\* ------------------------------------------------------------------------
\* the extraction loop of that processor, from its own memory: one call of
\* extractAttributesFromPdf, then updateProgress and, on success,
\* saveCompletedStyle with the sets it holds
OrphanExtract(outcome) ==
  /\ orphan.running /\ orphan.todo # <<>>
  /\ LET d == Head(orphan.todo)
         readable == pdfs[d.filePath] # "missing"
         parsed == extractJsonFromText(outcome.text)
         success == readable /\ outcome.kind = "text" /\ parsed.ok
         retry == Retries(d, outcome, orphan.retryCount)
         result == [styleNo |-> d.styleNo, success |-> success,
                    data |-> IF success THEN parsed.value ELSE <<>>]
         processed == orphan.totalProcessed + 1
         completed == orphan.completed \cup {d.styleNo}
         partial == SavePartial(orphan.partial, d.styleNo, result.data)
         progress == WriteProgress(job, "extract:", d.styleNo,
                                   ProgressPercent(processed, orphan.totalStyles))
     IN IF d.filePath = <<>>
        THEN /\ orphan' = [orphan EXCEPT !.todo = Tail(@)]
             /\ UNCHANGED job
        ELSE IF retry
        THEN /\ orphan' = [orphan EXCEPT !.retryCount = @ + 1]
             /\ UNCHANGED job
        ELSE IF success
        THEN /\ job' = [progress EXCEPT !.completed_extractions = completed,
                                        !.partial_extractions = partial]
             /\ orphan' = [orphan EXCEPT !.todo = Tail(@), !.retryCount = 0,
                                         !.completed = completed,
                                         !.partial = partial,
                                         !.results = Append(@, result),
                                         !.totalProcessed = processed]
        ELSE /\ job' = progress
             /\ orphan' = [orphan EXCEPT !.todo = Tail(@), !.retryCount = 0,
                                         !.results = Append(@, result),
                                         !.totalProcessed = processed]
  /\ UNCHANGED <<cfg, sheet, pdfs, faults, envEvents, procFault, procVars, wdVars,
                 histVars>>

\* its loop is over: it writes the finished job and exits
OrphanComplete ==
  /\ orphan.running /\ orphan.todo = <<>>
  /\ job' = CompletionWrite(job, orphan.results, orphan.partial, orphan.totalStyles)
  /\ orphan' = NoOrphan
  /\ UNCHANGED <<cfg, sheet, pdfs, faults, envEvents, procFault, procVars, wdVars,
                 histVars>>

NextO ==
  \/ ProcLoad
  \/ ProcBegin
  \/ ProcResume
  \/ \E w \in DOMAIN workers : WorkerPop(w)
  \/ \E w \in DOMAIN workers, outcome \in DownloadOutcomes : DownloadDone(w, outcome)
  \/ \E w \in DOMAIN workers : WorkerProgressAck(w)
  \/ \E w \in DOMAIN workers : WorkerSaveAck(w)
  \/ \E w \in DOMAIN workers : WorkerExit(w)
  \/ PoolDone
  \/ \E outcome \in ServiceOutcomes : ExtractAttempt(outcome)
  \/ ExtractProgressAck
  \/ ExtractSaveAck
  \/ ProcComplete
  \/ Tick
  \/ TickSilent
  \/ WdDeadQuery
  \/ WdDeadRestart
  \/ WdFailedQuery
  \/ WdCleanup
  \/ \E outcome \in ServiceOutcomes : OrphanExtract(outcome)
  \/ OrphanComplete

\* two styles, one download worker, heartbeat updates that do not reach the
\* job store, and a processor that outlives the restart of its job
InitO == InitWith(<<"A1", "B 2">>, 1, MaxSilent, {"heartbeat", "overlap"})

SpecO == InitO /\ [][NextO]_vars

\* ------------------------------------------------------------------------
\* Resume after a crash: ten styles, four downloads recorded
\* ------------------------------------------------------------------------
TenStyles == <<"K0", "K1", "K2", "K3", "K4", "K5", "K6", "K7", "K8", "K9">>


\* the job record a crashed run left, after the watchdog has written its
\* restart and spawned a processor
CrashedJob(downloads, extractions) ==
  [NewJob EXCEPT
     !.status = "processing",
     !.style_count = Len(TenStyles),
     !.progress_percent = ProgressPercent(Cardinality(downloads), Len(TenStyles)),
     !.current_style = <<"download:", "K9">>,
     !.completed_downloads = downloads,
     !.completed_extractions = extractions,
     !.partial_extractions = [ s \in extractions |-> <<"{", "fields", "}">> ]]

InitR ==
  /\ cfg = [styles |-> TenStyles, parallel |-> 2, budget |-> MaxFaultsR,
            faultAt |-> {"pool"}]
  /\ sheet = NoSheet
  /\ \E downloads \in SUBSET SeqToSet(TenStyles) :
       /\ Cardinality(downloads) = RecordedDownloads
       /\ \E extractions \in {{}, downloads} :
            job = RestartWrite(CrashedJob(downloads, extractions), 0)
       /\ \E bad \in SUBSET downloads,
             how \in {"missing", PdfOfAge(PDF_FRESHNESS_DAYS + 1)} :
            /\ Cardinality(bad) <= MaxBadPdfs
            /\ bad = {} => how = "missing"
            /\ pdfs = [ n \in PdfNames(TenStyles) |->
                          IF \E k \in bad : SafePdf(k) = n THEN how
                          ELSE IF \E k \in downloads : SafePdf(k) = n
                               THEN PdfOfAge(PDF_FRESHNESS_DAYS - 1)
                          ELSE "missing" ]
  /\ faults = 0
  /\ envEvents = 0
  /\ procFault = FALSE
  /\ orphan = NoOrphan
  /\ alive = TRUE
  /\ guard = FALSE
  /\ pc = "load"
  /\ completedDownloads = {}
  /\ completedExtractions = {}
  /\ partialExtractions = <<>>
  /\ totalProcessed = 0
  /\ totalStyles = 0
  /\ styleQueue = <<>>
  /\ downloadResults = <<>>
  /\ workers = <<>>
  /\ popupPending = FALSE
  /\ stylesToExtract = <<>>
  /\ extractionResults = <<>>
  /\ ex = IdleEx
  /\ restartAttempts = (JOB_ID :> 1)
  /\ wdpc = "idle"
  /\ wdJob = NoRow
  /\ spawns = 1
  /\ spawnedSince = 1
  /\ overlaps = FALSE
  /\ lastExit = "killed"
  /\ ownPercent = 0
  /\ popCount = <<>>
  /\ extractCalled = {}
  /\ startExtractions = {}
  /\ startPartial = <<>>
  /\ resumeLog = <<>>

\* start-up of the restarted worker, kills while its downloads are still
\* running, and the watchdog
NextR ==
  \/ ProcLoad
  \/ ProcBegin
  \/ ProcResume
  \/ ProcKill
  \/ Tick
  \/ WdDeadQuery
  \/ WdDeadRestart
  \/ WdFailedQuery
  \/ WdCleanup

SpecR == InitR /\ [][NextR]_vars

\* ------------------------------------------------------------------------
\* The reader and the output assembler on input tables
\* ------------------------------------------------------------------------
\* the data rows the tables are made of: item id and LINING cell
ItemRows ==
  { << <<"A", "-", "1">>, <<>> >>,
    << <<"A", "-", "2">>, <<"S">> >>,
    << <<"B", "-", "1">>, <<>> >>,
    << <<>>, <<"S">> >> }

\* no header line, or one naming the two columns
HeaderLines ==
  { <<>>,
    << <<ITEM_ID, LINING>> >>,
    << << <<"I", "t", "e", "m", " ", "I", "d">>, <<"L", "i", "n", "i", "n", "g">> >> >> }

Tables ==
  { h \o body : h \in HeaderLines,
                body \in UNION { [1..n -> ItemRows] : n \in 0..MaxRows } }

\* what the extraction stage ends with for a style
StyleOutcomes == {"failed", "fields", "na"}

ResultOf(styleNo, outcome) ==
  [ styleNo |-> styleNo, success |-> outcome # "failed",
    data |-> IF outcome = "failed" THEN <<>> ELSE <<"{", outcome, "}">> ]

InitA ==
  \E table \in Tables, outcomes \in [ { <<"A">>, <<"B">> } -> StyleOutcomes ] :
    InitRun(<<>>, 1, 0, {},
            [ stage |-> "input", lines |-> table, outcomes |-> outcomes,
              read |-> <<>>, extractionResults |-> <<>>, out |-> <<>>,
              successful_count |-> 0, failed_count |-> 0 ])

\* main(): the input file is read
ReadInput ==
  /\ sheet.stage = "input"
  /\ sheet' = [sheet EXCEPT !.stage = "read", !.read = readStylesFromCSV(sheet.lines)]
  /\ UNCHANGED <<jobVars, cfg, orphan, pdfs, faults, envEvents, procFault, procVars, wdVars,
                 histVars>>

\* main(): every style was downloaded and the extraction stage is over;
\* the results are assembled and counted
Assemble ==
  /\ sheet.stage = "read"
  /\ LET uniqueStyles == sheet.read.uniqueStyles
         results == [ i \in 1..Len(uniqueStyles) |->
                        ResultOf(uniqueStyles[i], sheet.outcomes[uniqueStyles[i]]) ]
         successfulExtractions == SelectSeq(results, LAMBDA r : r.success)
     IN sheet' = [sheet EXCEPT
                    !.stage = "done",
                    !.extractionResults = results,
                    !.out = prepareExtractedData(
                              allExtractionResults(results, <<>>, uniqueStyles),
                              sheet.read.styleToRows, uniqueStyles),
                    !.successful_count = Len(successfulExtractions),
                    !.failed_count = Len(uniqueStyles) - Len(successfulExtractions)]
  /\ UNCHANGED <<jobVars, cfg, orphan, pdfs, faults, envEvents, procFault, procVars, wdVars,
                 histVars>>

NextA ==
  \/ ReadInput
  \/ Assemble

SpecA == InitA /\ [][NextA]_vars

\* ------------------------------------------------------------------------
\* Properties
\* ------------------------------------------------------------------------
\* C1: in every run, the extraction service is never called for a style
\* that was in the persisted completed_extractions when the run loaded it
C1_NoRepeatedExtraction == extractCalled \cap startExtractions = {}

\* a resumed run that found extractions recorded, and has called the
\* extraction service for another style
C1_Witness ==
  /\ startExtractions # {}
  /\ extractCalled # {}
  /\ spawns >= 1

\* C2: whatever the number of download workers and the interleaving of
\* their steps, no style placed in the queue is popped twice, a popped
\* style is no longer in the queue, and when the pool has finished every
\* style placed in the queue has been popped exactly once
C2_PoppedExactlyOnce ==
  /\ \A k \in DOMAIN popCount :
        /\ popCount[k] <= 1
        /\ popCount[k] = 1 => k \notin SeqToSet(styleQueue)
  /\ pc = "extract" => \A k \in DOMAIN popCount : popCount[k] = 1

\* two workers have emptied a queue of two styles
C2_Witness ==
  /\ pc = "extract"
  /\ Len(workers) = 2
  /\ DOMAIN popCount = {"A1", "B 2"}

\* C3: in every state of the job record, completed_extractions is a subset
\* of completed_downloads
C3_ExtractionsWithinDownloads ==
  job.completed_extractions \subseteq job.completed_downloads

\* C4: in every state of the job record, the styles that have an entry in
\* partial_extractions are exactly those of completed_extractions
C4_PartialKeysAreCompleted ==
  DOMAIN job.partial_extractions = job.completed_extractions

\* C5: the watchdog spawns a processor for the job at most
\* MAX_RESTART_ATTEMPTS times in total
C5_RestartsBounded == spawns <= MAX_RESTART_ATTEMPTS

\* C6: whenever restartJob finds the attempt counter at or above the
\* maximum, for a stalled job or for a failed one, it leaves the job failed
\* with the message that cites the number of crashes and the last progress,
\* and no longer tracked
GiveUpStep ==
  /\ wdpc \in {"deadRestart", "failedRestart"}
  /\ wdpc' # wdpc
  /\ AttemptsOf(restartAttempts) >= MAX_RESTART_ATTEMPTS

C6_GiveUpMarksJobFailed ==
  [][GiveUpStep =>
       /\ job'.status = "failed"
       /\ job'.error_message =
            CrashedMessage(AttemptsOf(restartAttempts), wdJob.progress_percent,
                           wdJob.current_style)
       /\ JOB_ID \notin DOMAIN restartAttempts']_vars

\* C7: the queue a starting worker builds holds, each once, the styles not
\* in completedDownloads and those of completedDownloads whose pdf is
\* missing or stale, and the latter are removed from completedDownloads;
\* with 4 of 10 downloads recorded and their pdfs fresh it holds the 6
\* other styles
ResumeStep == pc = "resume" /\ pc' = "pool"

BadPdfs == { k \in completedDownloads : pdfs[SafePdf(k)] # "fresh" }

C7_ResumeQueueIsRemainingWork ==
  [][ResumeStep =>
       /\ SeqToSet(styleQueue') = (SeqToSet(cfg.styles) \ completedDownloads) \cup BadPdfs
       /\ Len(styleQueue') = Cardinality(SeqToSet(styleQueue'))
       /\ completedDownloads' = completedDownloads \ BadPdfs
       /\ (Len(cfg.styles) = 10 /\ Cardinality(completedDownloads) = 4 /\ BadPdfs = {})
            => Len(styleQueue') = 6]_vars

\* a worker the watchdog restarted after a kill has built a queue of the 6
\* styles left, with the 4 recorded downloads kept
C7_Witness ==
  /\ pc = "pool"
  /\ spawns = 2
  /\ faults = 1
  /\ Len(styleQueue) = 6
  /\ Cardinality(completedDownloads) = 4

\* C8: two resumes in a row, with no progress and no change of the pdfs
\* between them, leave the same downloads and the same extractions to do
C8_ResumeIdempotent ==
  Len(resumeLog) = 2 => resumeLog[1] = resumeLog[2]

\* the second of two such resumes has run, with downloads recorded and
\* work left in both stages
C8_Witness ==
  /\ Len(resumeLog) = 2
  /\ pc = "pool"
  /\ completedDownloads # {}
  /\ resumeLog[2].downloads # {}
  /\ resumeLog[2].extractions # {}

\* C9: while a run extracts, every style the extraction service was called
\* for has a successful entry in the download results of the run and no
\* failed one
C9_ExtractOnlyDownloaded ==
  (alive /\ pc = "extract") =>
    \A k \in extractCalled :
      /\ \E i \in 1..Len(downloadResults) :
            downloadResults[i].styleNo = k /\ downloadResults[i].success
      /\ \A i \in 1..Len(downloadResults) :
            downloadResults[i].styleNo = k => downloadResults[i].success

\* a run with one failed and one successful download has called the
\* extraction service
C9_Witness ==
  /\ alive /\ pc = "extract"
  /\ extractCalled # {}
  /\ \E i \in 1..Len(downloadResults) : ~downloadResults[i].success

\* C10: as long as no process-fatal event (a kill, an exception of the
\* pipeline) is injected, the job is never marked failed: the faults of
\* single downloads and extractions do not reach the job status
C10_ItemFaultsStayLocal == ~procFault => job.status # "failed"

\* C11: the watchdog never spawns a worker for the job while a worker
\* process started before still runs
C11_OneWorkerAtATime == ~overlaps

\* the status changes the lifecycle names
LifecycleSteps ==
  { <<"queued", "processing">>, <<"processing", "ready_for_export">>,
    <<"processing", "failed">>, <<"failed", "processing">> }

\* C12: the status changes only along queued -> processing, processing ->
\* ready_for_export, processing -> failed and failed -> processing, the last
\* only by a restart of the watchdog; ready_for_export is never left
C12_StatusFollowsLifecycle ==
  [][ /\ job'.status # job.status =>
           <<job.status, job'.status>> \in LifecycleSteps
      /\ (job.status = "failed" /\ job'.status = "processing") =>
           spawns' = spawns + 1
      /\ job.status = "ready_for_export" => job'.status = "ready_for_export"
    ]_vars

\* C13: while one worker process runs, no progress write of it that reaches
\* the job store lowers the progress_percent the process stored before
C13_ProgressNeverDecreases ==
  [][ (pc # "load" /\ ownPercent' # ownPercent) =>
        job'.progress_percent >= ownPercent ]_vars

\* a step in which a progress write of updateProgress reaches the job store
ProgressStored ==
  /\ alive /\ alive' /\ pc' = pc
  /\ \/ pc = "pool" /\ \E w \in DOMAIN workers :
                          workers[w].pc = "progress" /\ workers'[w].pc # "progress"
     \/ pc = "extract" /\ ex.pc = "progress" /\ ex'.pc # "progress"

\* the counts of processed items a write stored now can have been computed
\* from: download workers have sent theirs at any count up to the counter,
\* the extraction loop waits for each write
ProcessedAtSend ==
  IF pc = "pool" THEN 1..totalProcessed ELSE {totalProcessed}

\* C14: a progress write of a running processor stores
\* min(99, round(processed / (totalItems * 2) * 100)), a value in 0..99, also
\* when a resume has counted the items done before; 100 is stored only by
\* the write that sets status ready_for_export
C14_ProgressValue ==
  [][ /\ ProgressStored =>
           /\ job'.progress_percent \in 0..99
           /\ \E k \in ProcessedAtSend :
                 job'.progress_percent = Min(99, MathRound(k * 100, totalStyles * 2))
      /\ (job'.progress_percent = 100 /\ job.progress_percent # 100) =>
           (job'.status = "ready_for_export" /\ job.status # "ready_for_export")
    ]_vars

\* a restarted processor that counted resumed downloads has stored the
\* capped value for the last of its items
C14_Witness ==
  /\ spawns >= 1 /\ alive /\ pc = "extract"
  /\ \E i \in DOMAIN downloadResults : downloadResults[i].skipped
  /\ totalProcessed = 2 * totalStyles
  /\ ownPercent = 99 /\ job.progress_percent = 99

\* status processing and a heartbeat older than the stale threshold
Stalled(j) ==
  j.status = "processing" /\ j.updated_at * CHECK_INTERVAL_MS > STALE_THRESHOLD_MS

\* status failed inside the retry window with a transient-fault message
RecentlyFailedRetryable(j) ==
  /\ j.status = "failed"
  /\ j.updated_at * CHECK_INTERVAL_MS < FAILED_RETRY_WINDOW_MS
  /\ \E substring \in RETRYABLE_ERRORS : Includes(j.error_message, substring)

\* a step of restartJob: it writes the job record or spawns a processor
WatchdogWrites ==
  wdpc \in {"deadRestart", "failedRestart"} /\ (job' # job \/ spawns' # spawns)

\* C15: when the watchdog writes a job record or spawns a processor for it,
\* the job is at that moment stalled or recently failed with a retryable
\* error; a job that is ready_for_export, queued, processing with a fresh
\* heartbeat, failed with another error or failed long ago is left alone
C15_WatchdogActsOnEligibleOnly ==
  [][ WatchdogWrites => (Stalled(job) \/ RecentlyFailedRetryable(job)) ]_vars

\* the first word of the message each interceptor writes
GuardPrefixes == {"Crash:", "Unhandled"}

\* C16: when the uncaughtException or the unhandledRejection handler
\* fires, the job is set to failed with the handler's message or, when the
\* update fails, left as it is; whatever the pipeline does while the
\* handler awaits its update, the process then stops its heartbeat and
\* ends with exit code 1, and nothing keeps it from doing so; a process
\* killed before that has not ended with code 0 either
C16_GuardsExitNonZero ==
  [][ /\ (~guard /\ guard') =>
           \/ job' = job
           \/ /\ job'.status = "failed"
              /\ job'.error_message # <<>>
              /\ job'.error_message[1] \in GuardPrefixes
      /\ (alive /\ guard /\ ~alive') => lastExit' \in {"1", "killed"}
      /\ (alive /\ guard) => ENABLED ProcessExit
    ]_vars

\* a handler whose update failed has exited with code 1: the job is still
\* processing and nobody restarted it
C16_Witness ==
  /\ ~alive /\ lastExit = "1"
  /\ job.status = "processing" /\ spawns = 0

\* the rows the reader kept, in the order of the output rows
OutputOrder ==
  Flatten([ k \in 1..Len(sheet.read.uniqueStyles) |->
              sheet.read.styleToRows[sheet.read.uniqueStyles[k]] ])

\* the canonical field names
CanonicalNames == { FIELD_DEFINITIONS[i].field_name : i \in 1..Len(FIELD_DEFINITIONS) }

DataLines ==
  { i \in 1..Len(sheet.lines) : ~(sheet.read.hasHeader /\ i = 1) }

\* the styles whose extraction succeeded
Extracted ==
  { sheet.extractionResults[i].styleNo :
      i \in { n \in 1..Len(sheet.extractionResults) :
                sheet.extractionResults[n].success } }

\* C18: the assembled output has one row for every data row of the input;
\* a row of a style with no successful extraction has no artifact link and
\* nothing in an extracted field the input left empty; successful_count and
\* failed_count are the numbers of styles with and without a successful
\* extraction
C18_OneOutputRowPerInputRow ==
  sheet.stage = "done" =>
    /\ Len(sheet.out.rows) = Cardinality(DataLines)
    /\ \A j \in 1..Len(sheet.out.rows) :
         OutputOrder[j].styleNo \notin Extracted =>
           /\ sheet.out.rows[j][PDF_LINK] = <<>>
           /\ InputValue(OutputOrder[j], LINING) = <<>> =>
                sheet.out.rows[j][LINING] = <<>>
    /\ sheet.successful_count = Cardinality(Extracted)
    /\ sheet.failed_count =
         Cardinality(SeqToSet(sheet.read.uniqueStyles) \ Extracted)

\* C19: the rows the reader groups under the styles are as many as the
\* data rows of the input, and the unique styles are as many as the
\* distinct prefixes of the rows' item ids
C19_ReaderKeepsEveryRow ==
  sheet.stage \in {"read", "done"} =>
    /\ Len(OutputOrder) = Cardinality(DataLines)
    /\ Len(sheet.read.uniqueStyles) =
         Cardinality({ StylePrefix(sheet.lines[i][1]) : i \in DataLines })

\* C20: with the freshness window of PDF_FRESHNESS_DAYS days, a pdf one day
\* older than the window is stale and its style is acquired again, and a
\* pdf one day younger is reused without another download, both when the
\* resume step looks at the recorded downloads and when a download worker
\* checks its cache for the style it took from the queue; the pdf of a
\* style is the file downloadTechPack saves, Tech_Pack_<safe(styleNo)>.pdf
PdfOf(styleNo) == pdfs[SafePdf(styleNo)]

PopStep(w) ==
  /\ pc = "pool" /\ popCount' # popCount
  /\ w \in DOMAIN workers /\ workers[w].pc = "idle" /\ workers'[w].pc # "idle"

ResumeFreshness ==
  ResumeStep =>
    \A s \in completedDownloads :
      /\ PdfOf(s) = PdfOfAge(PDF_FRESHNESS_DAYS + 1) =>
           /\ s \in SeqToSet(styleQueue')
           /\ s \notin completedDownloads'
      /\ PdfOf(s) = PdfOfAge(PDF_FRESHNESS_DAYS - 1) =>
           /\ s \notin SeqToSet(styleQueue')
           /\ \E i \in DOMAIN downloadResults' :
                downloadResults'[i].styleNo = s /\ downloadResults'[i].skipped

CacheFreshness ==
  \A w \in DOMAIN workers :
    PopStep(w) =>
      LET s == Head(styleQueue)
      IN /\ PdfOf(s) = PdfOfAge(PDF_FRESHNESS_DAYS + 1) =>
              workers'[w].pc = "downloading"
         /\ PdfOf(s) = PdfOfAge(PDF_FRESHNESS_DAYS - 1) =>
              /\ workers'[w].pc = "progress"
              /\ downloadResults' # downloadResults
              /\ pdfs' = pdfs

C20_FreshnessWindow ==
  /\ PdfOfAge(PDF_FRESHNESS_DAYS + 1) # PdfOfAge(PDF_FRESHNESS_DAYS - 1)
  /\ [][ResumeFreshness /\ CacheFreshness]_vars

\* C21: each restart the watchdog makes of a job whose attempt counter is
\* below MAX_RESTART_ATTEMPTS sets the job record to processing with the
\* error message cleared and updated_at refreshed, spawns exactly one worker
\* process for the job, and raises the attempt counter by exactly one
RestartStep ==
  /\ wdpc \in {"deadRestart", "failedRestart"}
  /\ wdpc' \notin {"deadRestart", "failedRestart"}
  /\ AttemptsOf(restartAttempts) < MAX_RESTART_ATTEMPTS

CleanupStep == wdpc = "cleanup" /\ wdpc' = "idle"

CounterCleared ==
  JOB_ID \in DOMAIN restartAttempts /\ JOB_ID \notin DOMAIN restartAttempts'

C22_CounterClearedWhenDone ==
  [][/\ (CleanupStep /\ job.status # "processing") =>
          JOB_ID \notin DOMAIN restartAttempts'
     /\ CounterCleared =>
          job'.status # "processing" /\ ~FailedMatch(job')]_vars

\* C23: in every state of the job record an error message is present only
\* when the status is failed
C23_ErrorOnlyWhenFailed == job.error_message # <<>> => job.status = "failed"

SilentMs == faults * CHECK_INTERVAL_MS

C25_DeadJobRecovered ==
  (~alive /\ job.status = "processing") ~> (alive \/ job.status = "failed")

\* the watchdog has restarted the job of a killed worker
C25_Witness ==
  /\ lastExit = "killed" /\ spawns >= 1
  /\ alive /\ pc = "load" /\ job.status = "processing"
  /\ job.current_style[1] = "restarting"

\* the steps in which a component's update reaches the job store
PipelineWrite ==
  \/ ProcBegin
  \/ \E w \in DOMAIN workers : WorkerProgressAck(w) \/ WorkerSaveAck(w)
  \/ ExtractProgressAck
  \/ ExtractSaveAck
  \/ ProcComplete
  \/ \E msg \in PipelineErrors : PipelineFault(msg)

GuardWrite ==
  \E stored \in BOOLEAN : UnhandledRejection(stored) \/ UncaughtException(stored)

WatchdogWrite == WdDeadRestart \/ WdFailedRestart

\* the fields of the job record a step changes
ChangedFields == { f \in DOMAIN job : job'[f] # job[f] }

ProgressFields == {"progress_percent", "current_style"}
ResumeFields == {"completed_downloads", "completed_extractions", "partial_extractions"}
ResultFields == {"style_count", "successful_count", "failed_count", "extracted_data"}

\* C26 as stated: every field has one writer; the progress and resume
\* fields are changed by the worker pipeline only, status and error_message
\* by the crash guard only
C26_DisjointWriters ==
  [][/\ ChangedFields \cap (ProgressFields \cup ResumeFields) # {} => PipelineWrite
     /\ ChangedFields \cap {"status", "error_message"} # {} => GuardWrite]_vars

\* C26: progress_percent, the resume fields and the result fields are
\* changed by the worker pipeline only and the attempt counter is kept in
\* the watchdog's memory only; status and error_message are written by the
\* pipeline, the crash guard and the watchdog, current_style by the
\* pipeline and the watchdog, updated_at by the heartbeat and the watchdog,
\* and neither the crash guard nor the watchdog writes any other field
C26_WritersOfFields ==
  [][/\ ChangedFields \cap ({"progress_percent"} \cup ResumeFields \cup ResultFields) # {}
          => PipelineWrite
     /\ ChangedFields \cap {"status", "error_message"} # {}
          => (PipelineWrite \/ GuardWrite \/ WatchdogWrite)
     /\ "current_style" \in ChangedFields => (PipelineWrite \/ WatchdogWrite)
     /\ "updated_at" \in ChangedFields => (Tick \/ TickSilent \/ WatchdogWrite)
     /\ GuardWrite => ChangedFields \subseteq {"status", "error_message"}
     /\ WatchdogWrite =>
          ChangedFields \subseteq {"status", "error_message", "current_style", "updated_at"}
     /\ restartAttempts' # restartAttempts => (WatchdogWrite \/ WdCleanup)]_vars

\* the pipeline, the crash guard and the watchdog have each written the
\* status: a run stored progress, its crash guard marked the job failed,
\* the watchdog restarted it and the new run has marked it processing
C26_Witness ==
  /\ spawns >= 1 /\ lastExit = "1"
  /\ alive /\ pc = "resume"
  /\ job.status = "processing"
  /\ job.progress_percent > 0
  /\ job.current_style[1] = "restarting"

\* the styles whose download succeeded in this run, cache short-circuits
\* and downloads kept at the resume included
Succeeded ==
  { downloadResults[i].styleNo :
      i \in { n \in 1..Len(downloadResults) : downloadResults[n].success } }

\* C27: once the download pool has finished, the stored completed_downloads
\* holds a style if and only if its download succeeded, whatever the number
\* of workers and the order in which their writes of the whole set arrive
C27_StoredDownloadsAreSuccesses ==
  (alive /\ pc = "extract") => job.completed_downloads = Succeeded

\* C28: an entry of the stored partial_extractions is never changed or
\* removed, by the run that stored it, by a later run or by the watchdog
C28_PartialEntriesImmutable ==
  [][\A k \in DOMAIN job.partial_extractions :
       /\ k \in DOMAIN job'.partial_extractions
       /\ job'.partial_extractions[k] = job.partial_extractions[k]]_vars


\* the answer could not be parsed
ParseFailure(outcome) ==
  outcome.kind = "text" /\ ~extractJsonFromText(outcome.text).ok

\* C29: for one item in one run the extraction makes at most
\* MAX_RETRIES + 1 = 4 calls of the extraction service and ends with a
\* success or an item failure; parse failures and rate-limit signals use
\* the same retry counter, and a failure that is neither is not retried
C29_ExtractionBounded ==
  [][ /\ ex'.calls <= MAX_RETRIES + 1
      /\ ex'.retryCount <= MAX_RETRIES
      /\ \A outcome \in ServiceOutcomes :
           (ExtractAttempt(outcome) /\ ex'.retryCount = ex.retryCount + 1)
             => ParseFailure(outcome) \/ outcome.kind = "rate_limit" ]_vars

\* the bounds of C29 alone: calls and retries of one item
C29_CallsBounded == ex.calls <= MAX_RETRIES + 1 /\ ex.retryCount <= MAX_RETRIES


\* the waits of the rate-limit schedule
RateLimitWaits == { waitTime(r) : r \in 0..(MAX_RETRIES - 1) }

\* C30: a rate-limit signal at retry count r < 3 is followed by a wait of
\* 30 s * 2^(r+1), that is 60 s, 120 s, 240 s, twice the rate-limit wait
\* before it, and then a retry; at retry count 3 the item fails without a
\* wait
C30_RateLimitBackoff ==
  [][ \A outcome \in ServiceOutcomes :
        ( /\ ExtractAttempt(outcome)
          /\ outcome.kind = "rate_limit"
          /\ pdfs[stylesToExtract[ex.idx].filePath] # "missing" )
        => IF ex.retryCount < 3
           THEN /\ ex'.pc = "call" /\ ex'.retryCount = ex.retryCount + 1
                /\ ex'.waited = 30000 * (2 ^ (ex.retryCount + 1))
                /\ ex'.waited = <<60000, 120000, 240000>>[ex.retryCount + 1]
                /\ ex.waited \in RateLimitWaits => ex'.waited = 2 * ex.waited
           ELSE /\ ex'.pc = "progress" /\ ~ex'.result.success
                /\ ex'.waited = 0 ]_vars

\* the third retry of an item follows a wait of 240 s
C30_Witness == alive /\ pc = "extract" /\ ex.retryCount = 3 /\ ex.waited = 240000


\* the results main() hands to prepareExtractedData when it completes
AssembledResults ==
  allExtractionResults(extractionResults, partialExtractions, cfg.styles)

\* C31: when a resumed run completes, every key that had an entry in the
\* partial_extractions loaded at its start is in the assembled output with
\* that stored data, the extraction service was not called for it in this
\* run, and no key has two results in the assembly
C31_ResumedBundlesFolded ==
  [][ ProcComplete =>
        /\ \A k \in DOMAIN startPartial :
             /\ k \in DOMAIN job'.extracted_data.map
             /\ job'.extracted_data.map[k] = startPartial[k]
        /\ DOMAIN startPartial \cap extractCalled = {}
        /\ \A i, j \in 1..Len(AssembledResults) :
             AssembledResults[i].styleNo = AssembledResults[j].styleNo => i = j
    ]_vars

\* a run that loaded a stored extraction has completed the job
C31_Witness ==
  /\ job.status = "ready_for_export" /\ lastExit = "0"
  /\ startPartial # <<>> /\ spawns > 0


\* C32: a download worker that takes a key whose saved pdf is fresh records
\* a successful, skipped result and reports progress without calling the
\* download engine; the engine is called only when the pdf is missing or
\* stale
C32_FreshCacheSkipsEngine ==
  [][ \A w \in DOMAIN workers :
        WorkerPop(w) =>
          LET styleNo == Head(styleQueue)
          IN IF PdfOf(styleNo) = "fresh"
             THEN /\ workers'[w].pc = "progress" /\ workers'[w].ok
                  /\ Len(downloadResults') = Len(downloadResults) + 1
                  /\ LET result == downloadResults'[Len(downloadResults')]
                     IN result.styleNo = styleNo /\ result.success /\ result.skipped
             ELSE workers'[w].pc = "downloading"
    ]_vars


\* a step of the extraction loop at an item: one call of
\* extractAttributesFromPdf, or the loop passing over the item
ExtractStep ==
  /\ alive /\ pc = "extract" /\ ex.pc = "call" /\ ex.idx <= Len(stylesToExtract)
  /\ alive' /\ pc' = "extract" /\ ex' # ex /\ ex'.pc # "idle"

\* C33: the extraction stage runs only when every download worker has
\* finished and the queue is empty; it works on one item at a time, each
\* call being for the item the loop stands at, with the results of all
\* items before it recorded; and the first call for every item but the
\* first follows the inter-call delay, whether the item before it
\* succeeded or failed
C33_ExtractionSequential ==
  [][ /\ (alive /\ pc = "extract") =>
           /\ \A w \in DOMAIN workers : workers[w].pc = "done"
           /\ styleQueue = <<>>
      /\ ExtractStep =>
           /\ Len(extractionResults) = ex.idx - 1
           /\ extractCalled' \ extractCalled \subseteq {stylesToExtract[ex.idx].styleNo}
           /\ (ex.retryCount = 0 /\ ex.idx > 1) => ex.waited = INTER_CALL_DELAY_MS
    ]_vars

\* the call for the second item is due after the first item failed
C33_Witness ==
  /\ alive /\ pc = "extract" /\ ex.pc = "call" /\ ex.idx = 2
  /\ Len(stylesToExtract) = 2 /\ ex.waited = INTER_CALL_DELAY_MS
  /\ ~extractionResults[1].success


\* C34: a worker process that ends with exit code 1 (after an uncaught
\* exception, an unhandled rejection, an exception of the pipeline, or a
\* job record that could not be loaded) leaves the job record with status
\* failed
C34_FatalFaultMarksFailed ==
  [][ (alive /\ ~alive' /\ lastExit' = "1") => job'.status = "failed" ]_vars


\* C35: when a run completes the job, successful_count is the number of
\* styles that have an extraction result in the stored output, those
\* carried over from earlier runs included, and failed_count is
\* style_count - successful_count
C35_TalliesMatchOutput ==
  [][ ProcComplete =>
        /\ job'.successful_count = Cardinality(DOMAIN job'.extracted_data.map)
        /\ job'.failed_count = job'.style_count - job'.successful_count
    ]_vars


\* the entries the download results hold for a style
EntriesFor(results, styleNo) == { i \in 1..Len(results) : results[i].styleNo = styleNo }

\* when the download pool is over and no fault interceptor has fired, the
\* queue is empty and the download results hold exactly one entry for
\* every style of the input
OneResultPerStyle ==
  (PoolDone /\ ~guard) =>
     /\ styleQueue = <<>>
     /\ \A s \in SeqToSet(cfg.styles) :
          Cardinality(EntriesFor(downloadResults, s)) = 1
     /\ Len(downloadResults) = Cardinality(SeqToSet(cfg.styles))

\* a pool over, with one result pre-populated and one pushed by a worker
C36_Witness ==
  /\ alive /\ ~guard /\ pc = "extract" /\ Len(downloadResults) = 2
  /\ \E i, j \in 1..2 : /\ downloadResults[i].skipped
                        /\ downloadResults[i].filePath = SafePdf(downloadResults[i].styleNo)
                        /\ ~downloadResults[j].skipped


\* the event loop of the worker process runs what is ready: the answers of
\* the download engine and of the job store, the workers' loops, the end
\* of the pool, a pending rejection and the exit of a fault interceptor
PoolFairness ==
  /\ WF_vars(\E w \in DOMAIN workers, outcome \in DownloadOutcomes : DownloadDone(w, outcome))
  /\ WF_vars(\E w \in DOMAIN workers : WorkerProgressAck(w))
  /\ WF_vars(\E w \in DOMAIN workers : WorkerSaveAck(w))
  /\ WF_vars(\E w \in DOMAIN workers : WorkerExit(w))
  /\ WF_vars(PoolDone)
  /\ WF_vars(\E stored \in BOOLEAN : UnhandledRejection(stored))
  /\ WF_vars(ProcessExit)

\* two styles, one download worker, every fault of the full model
InitP == InitWith(<<"A1", "B 2">>, 1, MaxFaults, Positions)

SpecP == InitP /\ [][Next]_vars /\ PoolFairness

\* C36: when the download pool completes with no fault interceptor fired,
\* the queue is empty and the download results hold exactly one entry,
\* pre-populated at the resume or pushed by a worker, for every style of
\* the input; and once the queue is drained the pool ends: the extraction
\* stage begins, or the process has ended or been replaced
C36_PoolCompletes ==
  /\ [][OneResultPerStyle]_vars
  /\ (alive /\ pc = "pool" /\ styleQueue = <<>>) ~> ~(alive /\ pc = "pool")


\* C37: a job record with status ready_for_export has progress_percent 100
\* and its extracted_data; the status is set only by the completion write
\* of a worker, together with the progress, the tallies and the output
C37_ReadyMeansComplete ==
  [][ /\ job'.status = "ready_for_export" =>
           job'.progress_percent = 100 /\ job'.extracted_data.present
      /\ (job.status # "ready_for_export" /\ job'.status = "ready_for_export") =>
           \/ job' = CompletionWrite(job, extractionResults, partialExtractions,
                                     totalStyles)
           \/ job' = CompletionWrite(job, orphan.results, orphan.partial,
                                     orphan.totalStyles)
    ]_vars


\* error texts an exception can carry: those of the model's faults, a
\* connection reset, and a timeout as the browser driver words it
ErrorTexts ==
  PipelineErrors \cup {UncaughtError, PopupNeverOpened,
                       <<"read", "ECONNRESET">>,
                       <<"Timeout", "30000ms", "exceeded.">>}

\* C38: the message the unhandledRejection handler stores always holds the
\* retryable pattern Unhandled rejection, whatever the reason, so the
\* watchdog classifies every failure it records as retryable; the message
\* of the uncaughtException handler or of the pipeline's catch block is
\* retryable only if the text of the underlying error holds one of the
\* patterns
C38_GuardFailuresRetryable ==
  [][ /\ (~guard /\ guard' /\ job' # job) =>
           /\ (popupPending /\ ~popupPending') =>
                /\ isRetryableError(job'.error_message)
                /\ Includes(job'.error_message, <<"Unhandled", "rejection">>)
                /\ \A reason \in ErrorTexts :
                     /\ Includes(UnhandledRejectionMessage(reason),
                                 <<"Unhandled", "rejection">>)
                     /\ isRetryableError(UnhandledRejectionMessage(reason))
           /\ faults' = faults + 1 =>
                /\ isRetryableError(job'.error_message)
                     => isRetryableError(Tail(job'.error_message))
                /\ \A err \in ErrorTexts :
                     isRetryableError(CrashMessage(err)) => isRetryableError(err)
      /\ \A msg \in PipelineErrors :
           (guard' = guard /\ job.status # "failed" /\ job'.status = "failed"
              /\ job'.error_message = msg)
           => (isRetryableError(job'.error_message)
                 => \E pattern \in RETRYABLE_ERRORS : Includes(msg, pattern))
    ]_vars

\* the unhandledRejection handler has recorded a failure, and the watchdog
\* has found it retryable
C38_Witness ==
  /\ job.status = "failed" /\ job.error_message # <<>>
  /\ job.error_message[1] = "Unhandled"
  /\ wdpc = "failedRestart"


\* a step of the watchdog's interval callback: a query, restartJob or
\* cleanupRestartAttempts
WatchdogStep == wdpc # "idle" /\ wdpc' # wdpc

\* a poll interval passes, with or without a heartbeat of the processor
HeartbeatStep == wdpc = "idle" /\ wdpc' = "dead"

\* the fields of a job record that hold its progress and its results
PipelineOwnedFields ==
  {"completed_downloads", "completed_extractions", "partial_extractions",
   "progress_percent", "style_count", "extracted_data"}

\* C39: no step of the watchdog (a query, a restart, the marking of a job
\* that is out of attempts, the cleanup of the counters) changes
\* completed_downloads, completed_extractions, partial_extractions,
\* progress_percent, style_count or extracted_data of the job record, and
\* the heartbeat changes no field but updated_at
C39_WatchdogLeavesProgress ==
  [][ /\ WatchdogStep => ChangedFields \cap PipelineOwnedFields = {}
      /\ HeartbeatStep => ChangedFields \subseteq {"updated_at"}
    ]_vars

\* the watchdog has restarted a job that had recorded a download and some
\* progress, and the record still holds both
C39_Witness ==
  /\ spawns >= 1
  /\ job.status = "processing"
  /\ job.current_style # <<>> /\ job.current_style[1] = "restarting"
  /\ job.completed_downloads # {}
  /\ job.progress_percent > 0


\* C40: in every step, the job's attempt counter is 0 (the job is not
\* tracked) or lies between 1 and MAX_RESTART_ATTEMPTS; it changes only by
\* one upwards, in the step in which the watchdog spawns a processor, or by
\* the removal of the job's entry; and it equals the number of processors
\* the watchdog has spawned for the job since it last removed the entry
C40_CounterCountsSpawns ==
  [][ /\ AttemptsOf(restartAttempts) \in 0..MAX_RESTART_ATTEMPTS
      /\ JOB_ID \in DOMAIN restartAttempts => restartAttempts[JOB_ID] \in 1..MAX_RESTART_ATTEMPTS
      /\ AttemptsOf(restartAttempts) = spawnedSince
      /\ AttemptsOf(restartAttempts') = spawnedSince'
      /\ restartAttempts' # restartAttempts =>
           \/ /\ AttemptsOf(restartAttempts') = AttemptsOf(restartAttempts) + 1
              /\ spawns' = spawns + 1
           \/ JOB_ID \notin DOMAIN restartAttempts'
      /\ spawns' # spawns => AttemptsOf(restartAttempts') = AttemptsOf(restartAttempts) + 1
    ]_vars

\* the watchdog has removed the job's entry after it had used up the
\* attempts, and has spawned two processors since
C40_Witness ==
  /\ spawns = MAX_RESTART_ATTEMPTS + 2
  /\ AttemptsOf(restartAttempts) = 2

====
